---- MODULE Spec2Model ----
(***************************************************************************)
(* Excel analytics backend: the sheet processor (services/excelProcessor), *)
(* and the data, analyze, table-data and chart-data handlers of            *)
(* routes/excel.js, modelled as state machines over JavaScript values.     *)
(***************************************************************************)
EXTENDS Integers, Sequences, FiniteSets, TLC

(***************************************************************************)
(* JavaScript values.  A string is the sequence of its characters, so that *)
(* String(), the code-unit ordering of Array.prototype.sort() and the      *)
(* regular expressions of cleanColumnName are computed, not assumed.       *)
(***************************************************************************)
JNull == [k |-> "null", n |-> 0, s |-> <<>>]
JUndef == [k |-> "undefined", n |-> 0, s |-> <<>>]
JNaN == [k |-> "nan", n |-> 0, s |-> <<>>]
JProto == [k |-> "function", n |-> 0, s |-> <<>>]
JNum(n) == [k |-> "number", n |-> n, s |-> <<>>]
JStr(s) == [k |-> "string", n |-> 0, s |-> s]
JBool(b) == [k |-> "boolean", n |-> IF b THEN 1 ELSE 0, s |-> <<>>]

\* The printable ASCII characters in code-unit order, from 32 (space) to 126; the
\* double quote, the backslash and the backquote are named, not written, and occur in no value.
AsciiTable ==
  <<
     " ", "!", "dquote", "#", "$", "%", "&", "'", "(", ")", "*", "+",
     ",", "-", ".", "/", "0", "1", "2", "3", "4", "5", "6", "7",
     "8", "9", ":", ";", "<", "=", ">", "?", "@", "A", "B", "C",
     "D", "E", "F", "G", "H", "I", "J", "K", "L", "M", "N", "O",
     "P", "Q", "R", "S", "T", "U", "V", "W", "X", "Y", "Z", "[",
     "bslash", "]", "^", "_", "bquote", "a", "b", "c", "d", "e", "f", "g",
     "h", "i", "j", "k", "l", "m", "n", "o", "p", "q", "r", "s",
     "t", "u", "v", "w", "x", "y", "z", "{", "|", "}", "~"
  >>

CodeUnit == [c \in {AsciiTable[i] : i \in DOMAIN AsciiTable} \cup {"tab"} |->
               IF c = "tab" THEN 9
               ELSE 31 + (CHOOSE i \in DOMAIN AsciiTable : AsciiTable[i] = c)]

DigitChars == <<"0", "1", "2", "3", "4", "5", "6", "7", "8", "9">>

IsDigit(c) == CodeUnit[c] >= CodeUnit["0"] /\ CodeUnit[c] <= CodeUnit["9"]
IsUpper(c) == CodeUnit[c] >= CodeUnit["A"] /\ CodeUnit[c] <= CodeUnit["Z"]
IsLower(c) == CodeUnit[c] >= CodeUnit["a"] /\ CodeUnit[c] <= CodeUnit["z"]
DigitValue(c) == CodeUnit[c] - CodeUnit["0"]

\* Number.prototype.toString for a non-negative integer.
RECURSIVE NatToString(_)
NatToString(n) ==
  IF n < 10 THEN <<DigitChars[n + 1]>>
  ELSE NatToString(n \div 10) \o <<DigitChars[(n % 10) + 1]>>

\* String(v), the conversion applied to every property key.
JsString(v) ==
  CASE v.k = "string" -> v.s
    [] v.k = "number" -> NatToString(v.n)
    [] v.k = "null" -> <<"n", "u", "l", "l">>
    [] v.k = "undefined" -> <<"u", "n", "d", "e", "f", "i", "n", "e", "d">>
    [] v.k = "nan" -> <<"N", "a", "N">>
    [] v.k = "boolean" -> IF v.n = 1 THEN <<"t", "r", "u", "e">> ELSE <<"f", "a", "l", "s", "e">>
    [] OTHER -> <<"f", "u", "n", "c", "t", "i", "o", "n">>

RECURSIVE DigitsValue(_)
DigitsValue(s) ==
  IF s = <<>> THEN 0
  ELSE 10 * DigitsValue(SubSeq(s, 1, Len(s) - 1)) + DigitValue(s[Len(s)])

AllDigits(s) == \A i \in DOMAIN s : IsDigit(s[i])

\* Number(v) for the values a cell holds: a number is itself, null is 0, true is
\* 1 and false 0, a string of digits is its value, the empty string is 0, anything
\* else is NaN.
ToNumber(v) ==
  CASE v.k = "number" -> v
    [] v.k = "null" -> JNum(0)
    [] v.k = "boolean" -> JNum(v.n)
    [] v.k = "string" /\ AllDigits(v.s) -> JNum(DigitsValue(v.s))
    [] OTHER -> JNaN

\* ToBoolean(v).
Truthy(v) ==
  CASE v.k = "number" -> v.n # 0
    [] v.k = "boolean" -> v.n # 0
    [] v.k = "string" -> v.s # <<>>
    [] v.k \in {"function", "object"} -> TRUE
    [] OTHER -> FALSE

\* a || b
JsOr(a, b) == IF Truthy(a) THEN a ELSE b

\* The longest prefix of digits of s.
RECURSIVE DigitPrefix(_)
DigitPrefix(s) ==
  IF s # <<>> /\ IsDigit(s[1]) THEN <<s[1]>> \o DigitPrefix(Tail(s)) ELSE <<>>

\* parseInt(q, 10) of a query value: undefined and strings without leading digits
\* give NaN; a leading minus sign negates; characters after the digits are ignored.
ParseInt(q) ==
  IF q.k # "string" THEN JNaN
  ELSE LET neg == q.s # <<>> /\ q.s[1] = "-"
           body == IF neg THEN Tail(q.s) ELSE q.s
           digits == DigitPrefix(body)
       IN IF digits = <<>> THEN JNaN
          ELSE JNum(IF neg THEN 0 - DigitsValue(digits) ELSE DigitsValue(digits))

\* Comparison of two strings by UTF-16 code units, as the default sort compares.
RECURSIVE StrLess(_, _)
StrLess(a, b) ==
  IF b = <<>> THEN FALSE
  ELSE IF a = <<>> THEN TRUE
  ELSE IF a[1] = b[1] THEN StrLess(Tail(a), Tail(b))
  ELSE CodeUnit[a[1]] < CodeUnit[b[1]]

(***************************************************************************)
(* JavaScript objects and arrays.  An object is the sequence of its own    *)
(* properties in insertion order; a plain object inherits the properties   *)
(* of Object.prototype.                                                    *)
(***************************************************************************)
JObj(o) == [k |-> "object", n |-> 0, s |-> o]

EmptyObject == <<>>

\* The properties every plain object inherits whose names a cleaned column name
\* or a cell value can spell.
ObjectPrototypeKeys ==
  { <<"c", "o", "n", "s", "t", "r", "u", "c", "t", "o", "r">>,
    <<"t", "o", "S", "t", "r", "i", "n", "g">>,
    <<"v", "a", "l", "u", "e", "O", "f">> }

ObjHasOwn(o, key) == \E i \in DOMAIN o : o[i].k = key

\* o[key]: the own property, else the inherited one, else undefined.
ObjGet(o, key) ==
  IF ObjHasOwn(o, key) THEN o[CHOOSE i \in DOMAIN o : o[i].k = key].v
  ELSE IF key \in ObjectPrototypeKeys THEN JProto
  ELSE JUndef

\* o[key] = v: an existing property keeps its place, a new one goes last.
ObjSet(o, key, v) ==
  IF ObjHasOwn(o, key)
  THEN [i \in DOMAIN o |-> IF o[i].k = key THEN [k |-> key, v |-> v] ELSE o[i]]
  ELSE Append(o, [k |-> key, v |-> v])

\* An array index: the canonical decimal form of an integer below 2^32 - 1.
IsArrayIndex(key) ==
  /\ key # <<>>
  /\ AllDigits(key)
  /\ (key[1] # "0" \/ Len(key) = 1)
  /\ Len(key) <= 9

RECURSIVE InsertByValue(_, _)
InsertByValue(key, s) ==
  IF s = <<>> THEN <<key>>
  ELSE IF DigitsValue(key) < DigitsValue(s[1]) THEN <<key>> \o s
  ELSE <<s[1]>> \o InsertByValue(key, Tail(s))

RECURSIVE SortByValue(_)
SortByValue(s) ==
  IF s = <<>> THEN <<>>
  ELSE InsertByValue(s[Len(s)], SortByValue(SubSeq(s, 1, Len(s) - 1)))

OwnKeys(o) == [i \in DOMAIN o |-> o[i].k]

IsIndexKey(key) == IsArrayIndex(key)
IsNameKey(key) == ~IsArrayIndex(key)

\* Object.keys(o) and for-in: the array-index keys in ascending numeric order,
\* then the other keys in insertion order.
ObjectKeys(o) ==
  SortByValue(SelectSeq(OwnKeys(o), IsIndexKey)) \o SelectSeq(OwnKeys(o), IsNameKey)

\* Object.values(o), in the order of Object.keys(o).
ObjectValues(o) == [i \in DOMAIN o |-> ObjGet(o, ObjectKeys(o)[i])]

Min(a, b) == IF a < b THEN a ELSE b
Max(a, b) == IF a > b THEN a ELSE b

\* Array.prototype.slice(start, end): a negative index counts from the end, and
\* both indexes are clamped to the array.
ArraySlice(a, start, end) ==
  LET from == IF start < 0 THEN Max(Len(a) + start, 0) ELSE Min(start, Len(a))
      to == IF end < 0 THEN Max(Len(a) + end, 0) ELSE Min(end, Len(a))
  IN IF from >= to THEN <<>> ELSE SubSeq(a, from + 1, to)

RECURSIVE InsertByString(_, _)
InsertByString(x, s) ==
  IF s = <<>> THEN <<x>>
  ELSE IF StrLess(JsString(x), JsString(s[1])) THEN <<x>> \o s
  ELSE <<s[1]>> \o InsertByString(x, Tail(s))

RECURSIVE SortByString(_)
SortByString(s) ==
  IF s = <<>> THEN <<>>
  ELSE InsertByString(s[Len(s)], SortByString(SubSeq(s, 1, Len(s) - 1)))

IsUndefined(v) == v.k = "undefined"
IsDefined(v) == v.k # "undefined"

\* Array.prototype.sort() without a comparator: undefined elements go last, the
\* others are ordered by the code units of their string forms (a stable sort).
ArraySort(a) == SortByString(SelectSeq(a, IsDefined)) \o SelectSeq(a, IsUndefined)

\* [...new Set(a)]: the distinct elements in order of first occurrence.
RECURSIVE Distinct(_)
Distinct(a) ==
  IF a = <<>> THEN <<>>
  ELSE LET init == Distinct(SubSeq(a, 1, Len(a) - 1))
           last == a[Len(a)]
       IN IF \E i \in DOMAIN init : init[i] = last THEN init ELSE Append(init, last)

\* a + b: concatenation of the string forms when either side is a string, an
\* object or a function; else the sum of the two sides as numbers.
JsAdd(a, b) ==
  IF a.k \in {"string", "object", "function"} \/ b.k \in {"string", "object", "function"}
  THEN JStr(JsString(a) \o JsString(b))
  ELSE IF ToNumber(a).k = "number" /\ ToNumber(b).k = "number"
  THEN JNum(ToNumber(a).n + ToNumber(b).n)
  ELSE JNaN

IsNullish(v) == v.k \in {"null", "undefined"}

(***************************************************************************)
(* services/excelProcessor: getDataType, inferDataType,                    *)
(* calculateStatistics and getMostCommonValue.                             *)
(***************************************************************************)
TypeNull == <<"n", "u", "l", "l">>
TypeDate == <<"d", "a", "t", "e">>
TypeString == <<"s", "t", "r", "i", "n", "g">>
TypeNumber == <<"n", "u", "m", "b", "e", "r">>
TypeBoolean == <<"b", "o", "o", "l", "e", "a", "n">>
TypeArray == <<"a", "r", "r", "a", "y">>
TypeObject == <<"o", "b", "j", "e", "c", "t">>
TypeMixed == <<"m", "i", "x", "e", "d">>

\* The date-time strings every engine parses: YYYY, YYYY-MM and YYYY-MM-DD.
IsoYear(s) == DigitsValue(SubSeq(s, 1, 4))
IsoMonth(s) == IF Len(s) >= 7 THEN DigitsValue(SubSeq(s, 6, 7)) ELSE 1
IsoDay(s) == IF Len(s) = 10 THEN DigitsValue(SubSeq(s, 9, 10)) ELSE 1

IsIsoDate(s) ==
  /\ Len(s) \in {4, 7, 10}
  /\ \A i \in DOMAIN s : IF i \in {5, 8} THEN s[i] = "-" ELSE IsDigit(s[i])
  /\ IsoMonth(s) \in 1..12
  /\ IsoDay(s) \in 1..31

\* !isNaN(Date.parse(value)) for the strings a cell holds: ISO dates parse, text
\* without digits does not.
DateParses(s) == IsIsoDate(s)

getDataType(value) ==
  IF value.k \in {"null", "undefined"} THEN TypeNull
  ELSE IF value.k = "string" THEN (IF DateParses(value.s) THEN TypeDate ELSE TypeString)
  ELSE IF value.k \in {"number", "nan"} THEN TypeNumber
  ELSE IF value.k = "boolean" THEN TypeBoolean
  ELSE IF value.k = "array" THEN TypeArray
  ELSE IF value.k = "object" THEN TypeObject
  ELSE TypeMixed

\* typeCount[type] = (typeCount[type] || 0) + 1
CountType(typeCount, type) ==
  ObjSet(typeCount, type, JsAdd(JsOr(ObjGet(typeCount, type), JNum(0)), JNum(1)))

\* values.forEach: the tally after the first n values.
RECURSIVE TypeCount(_, _)
TypeCount(values, n) ==
  IF n = 0 THEN EmptyObject
  ELSE CountType(TypeCount(values, n - 1), getDataType(values[n]))

\* The comparison with >= in place of >: a later type of equal count is taken.
TakeIfNotLess(best, type, count) ==
  IF count >= best.maxCount THEN [mostCommonType |-> type, maxCount |-> count] ELSE best

\* if (typeCount[type] > maxCount) { maxCount = typeCount[type]; mostCommonType = type }
TakeIfMore(best, type, count) ==
  IF count > best.maxCount THEN [mostCommonType |-> type, maxCount |-> count] ELSE best

\* for (const type in typeCount): the scan after the first n keys.
RECURSIVE ScanTypes(_, _, _)
ScanTypes(typeCount, keys, n) ==
  IF n = 0 THEN [mostCommonType |-> TypeString, maxCount |-> 0]
  ELSE TakeIfMore(ScanTypes(typeCount, keys, n - 1), keys[n], ObjGet(typeCount, keys[n]).n)

MostCommonType(typeCount) ==
  ScanTypes(typeCount, ObjectKeys(typeCount), Len(typeCount)).mostCommonType

inferDataType(values) ==
  IF Len(values) = 0 THEN TypeNull ELSE MostCommonType(TypeCount(values, Len(values)))

\* No filter at all: the nulls stay among the values.
UnfilteredValues(values) == values

\* values.filter(v => v !== null && v !== undefined)
IsValue(v) == v.k # "null" /\ v.k # "undefined"
FilteredValues(values) == SelectSeq(values, IsValue)

\* new Set(filteredValues).size
UniqueCount(filteredValues) == Len(Distinct(filteredValues))

Numbers(values) == [i \in DOMAIN values |-> ToNumber(values[i])]
AllNumbers(numbers) == \A i \in DOMAIN numbers : numbers[i].k = "number"

LeastOf(numbers) ==
  CHOOSE m \in {numbers[i].n : i \in DOMAIN numbers} : \A i \in DOMAIN numbers : m <= numbers[i].n
GreatestOf(numbers) ==
  CHOOSE m \in {numbers[i].n : i \in DOMAIN numbers} : \A i \in DOMAIN numbers : m >= numbers[i].n

\* Math.min(...values) and Math.max(...values) of a non-empty list: every value
\* is taken as a number, and one NaN makes the result NaN.
MathMin(values) ==
  IF AllNumbers(Numbers(values)) THEN JNum(LeastOf(Numbers(values))) ELSE JNaN
MathMax(values) ==
  IF AllNumbers(Numbers(values)) THEN JNum(GreatestOf(Numbers(values))) ELSE JNaN

\* filteredValues.reduce((sum, val) => sum + val, 0)
RECURSIVE ReduceSum(_, _)
ReduceSum(values, n) ==
  IF n = 0 THEN JNum(0) ELSE JsAdd(ReduceSum(values, n - 1), values[n])

RECURSIVE Gcd(_, _)
Gcd(a, b) == IF b = 0 THEN a ELSE Gcd(b, a % b)

\* The quotient a / b of two integers, b > 0 and a >= 0: an integer when b divides
\* a, else the fraction in lowest terms (n over the denominator written in s).
Quotient(a, b) ==
  IF a % b = 0 THEN JNum(a \div b)
  ELSE [k |-> "fraction", n |-> a \div Gcd(a, b), s |-> NatToString(b \div Gcd(a, b))]

\* stats.sum / filteredValues.length
Mean(sum, length) ==
  IF ToNumber(sum).k = "number" THEN Quotient(ToNumber(sum).n, length) ELSE JNaN

RECURSIVE SumOfSquares(_, _, _)
SumOfSquares(numbers, total, n) ==
  IF n = 0 THEN 0
  ELSE SumOfSquares(numbers, total, n - 1)
         + (Len(numbers) * numbers[n].n - total) * (Len(numbers) * numbers[n].n - total)

\* The mean of (v - mean)^2 over the values: with mean = total / length it is the
\* sum of (length * v - total)^2 over length^3.
Variance(numbers, sum) ==
  IF AllNumbers(numbers) /\ ToNumber(sum).k = "number"
  THEN Quotient(SumOfSquares(numbers, ToNumber(sum).n, Len(numbers)),
                Len(numbers) * Len(numbers) * Len(numbers))
  ELSE JNaN

\* Math.sqrt(stats.variance), kept as the root of the variance.
StdDev(variance) == IF variance.k = "nan" THEN JNaN ELSE [sqrt |-> variance]

WithVariance(stats, variance) ==
  [count |-> stats.count, nullCount |-> stats.nullCount, uniqueCount |-> stats.uniqueCount,
   min |-> stats.min, max |-> stats.max, sum |-> stats.sum, mean |-> stats.mean,
   variance |-> variance, stdDev |-> StdDev(variance)]

NumberStatistics(values, filtered, sum) ==
  IF Len(filtered) > 1
  THEN WithVariance([count |-> Len(values), nullCount |-> Len(values) - Len(filtered),
                     uniqueCount |-> UniqueCount(filtered),
                     min |-> MathMin(filtered), max |-> MathMax(filtered),
                     sum |-> sum, mean |-> Mean(sum, Len(filtered))],
                    Variance(Numbers(filtered), sum))
  ELSE [count |-> Len(values), nullCount |-> Len(values) - Len(filtered),
        uniqueCount |-> UniqueCount(filtered),
        min |-> MathMin(filtered), max |-> MathMax(filtered),
        sum |-> sum, mean |-> Mean(sum, Len(filtered))]

\* v.length: the length of a string, undefined for a number or a boolean.
Lengths(values) ==
  [i \in DOMAIN values |-> IF values[i].k = "string" THEN JNum(Len(values[i].s)) ELSE JUndef]

\* One step of getMostCommonValue: frequency[value] = (frequency[value] || 0) + 1,
\* and the value is taken when its frequency exceeds maxCount.
CountValue(best, value, frequency) ==
  IF ObjGet(frequency, JsString(value)).k = "number"
       /\ ObjGet(frequency, JsString(value)).n > best.maxCount
  THEN [frequency |-> frequency, maxCount |-> ObjGet(frequency, JsString(value)).n,
        mostCommon |-> value]
  ELSE [best EXCEPT !.frequency = frequency]

ScanValue(best, value) ==
  CountValue(best, value, CountType(best.frequency, JsString(value)))

\* values.forEach of getMostCommonValue: the scan after the first n values.
RECURSIVE MostCommonScan(_, _)
MostCommonScan(values, n) ==
  IF n = 0 THEN [frequency |-> EmptyObject, maxCount |-> 0, mostCommon |-> JNull]
  ELSE ScanValue(MostCommonScan(values, n - 1), values[n])

getMostCommonValue(values) == MostCommonScan(values, Len(values)).mostCommon

StringStatistics(values, filtered) ==
  [count |-> Len(values), nullCount |-> Len(values) - Len(filtered),
   uniqueCount |-> UniqueCount(filtered),
   minLength |-> MathMin(Lengths(filtered)), maxLength |-> MathMax(Lengths(filtered)),
   mostCommon |-> getMostCommonValue(filtered)]

\* The days from 1970-01-01 to the civil date y-m-d.
ShiftedYear(y, m) == IF m <= 2 THEN y - 1 ELSE y
ShiftedMonth(m) == IF m > 2 THEN m - 3 ELSE m + 9
DayOfEra(yoe, m, d) ==
  yoe * 365 + (yoe \div 4) - (yoe \div 100) + ((153 * ShiftedMonth(m) + 2) \div 5) + d - 1
DaysFromCivil(y, m, d) ==
  (ShiftedYear(y, m) \div 400) * 146097 + DayOfEra(ShiftedYear(y, m) % 400, m, d) - 719468

MsPerDay == 86400000

\* new Date(v): an ISO date string is midnight UTC of its day, a number or a
\* boolean is that many milliseconds after the epoch, other text is invalid.
InvalidDate == [valid |-> FALSE, days |-> 0, ms |-> 0]
NewDate(v) ==
  IF v.k = "string"
  THEN IF IsIsoDate(v.s)
       THEN [valid |-> TRUE, days |-> DaysFromCivil(IsoYear(v.s), IsoMonth(v.s), IsoDay(v.s)),
             ms |-> 0]
       ELSE InvalidDate
  ELSE IF ToNumber(v).k = "number"
  THEN [valid |-> TRUE, days |-> ToNumber(v).n \div MsPerDay, ms |-> ToNumber(v).n % MsPerDay]
  ELSE InvalidDate

Dates(values) == [i \in DOMAIN values |-> NewDate(values[i])]
NotAfter(a, b) == a.days < b.days \/ (a.days = b.days /\ a.ms <= b.ms)

\* new Date(Math.min(...dates)) and new Date(Math.max(...dates))
MinDate(dates) ==
  IF \E i \in DOMAIN dates : ~dates[i].valid THEN InvalidDate
  ELSE CHOOSE d \in {dates[i] : i \in DOMAIN dates} : \A i \in DOMAIN dates : NotAfter(d, dates[i])
MaxDate(dates) ==
  IF \E i \in DOMAIN dates : ~dates[i].valid THEN InvalidDate
  ELSE CHOOSE d \in {dates[i] : i \in DOMAIN dates} : \A i \in DOMAIN dates : NotAfter(dates[i], d)

DateStatistics(values, filtered) ==
  [count |-> Len(values), nullCount |-> Len(values) - Len(filtered),
   uniqueCount |-> UniqueCount(filtered),
   min |-> MinDate(Dates(filtered)), max |-> MaxDate(Dates(filtered))]

Statistics(values, filtered, dataType) ==
  IF Len(filtered) = 0
  THEN [count |-> Len(values), nullCount |-> Len(values) - Len(filtered)]
  ELSE IF dataType = TypeNumber
  THEN NumberStatistics(values, filtered, ReduceSum(filtered, Len(filtered)))
  ELSE IF dataType = TypeString THEN StringStatistics(values, filtered)
  ELSE IF dataType = TypeDate THEN DateStatistics(values, filtered)
  ELSE [count |-> Len(values), nullCount |-> Len(values) - Len(filtered),
        uniqueCount |-> UniqueCount(filtered)]

calculateStatistics(values, dataType) == Statistics(values, FilteredValues(values), dataType)

(***************************************************************************)
(* services/excelProcessor: cleanColumnName and processExcelFile.          *)
(***************************************************************************)
\* \s of the regular expression: the space and the tab (written "tab").
IsSpace(c) == c \in {" ", "tab"}
IsWordChar(c) == IsDigit(c) \/ IsUpper(c) \/ IsLower(c) \/ c = "_"
ToLowerChar(c) == IF IsUpper(c) THEN AsciiTable[CodeUnit[c] + 32 - 31] ELSE c

\* .replace(/\s/g, '_'), without the +: one underscore for every whitespace.
ReplaceEachSpace(s) == [i \in DOMAIN s |-> IF IsSpace(s[i]) THEN "_" ELSE s[i]]

\* .replace(/\s+/g, '_'): each maximal run of whitespace becomes one underscore.
RECURSIVE ReplaceSpaceRuns(_)
ReplaceSpaceRuns(s) ==
  IF s = <<>> THEN <<>>
  ELSE IF IsSpace(s[1])
       THEN IF Len(s) > 1 /\ IsSpace(s[2]) THEN ReplaceSpaceRuns(Tail(s))
            ELSE <<"_">> \o ReplaceSpaceRuns(Tail(s))
       ELSE <<s[1]>> \o ReplaceSpaceRuns(Tail(s))

\* .replace(/\./g, '_')
ReplaceDots(s) == [i \in DOMAIN s |-> IF s[i] = "." THEN "_" ELSE s[i]]

\* .replace(/[^a-zA-Z0-9_]/g, '')
StripSpecial(s) == SelectSeq(s, IsWordChar)

\* .toLowerCase()
ToLowerCase(s) == [i \in DOMAIN s |-> ToLowerChar(s[i])]

ColPrefix == <<"c", "o", "l", "_">>
ColumnLiteral == <<"c", "o", "l", "u", "m", "n">>

cleanColumnName(columnName) ==
  LET cleaned == ToLowerCase(StripSpecial(ReplaceDots(ReplaceSpaceRuns(columnName))))
      prefixed == IF cleaned # <<>> /\ (IsDigit(cleaned[1]) \/ cleaned[1] = "_")
                  THEN ColPrefix \o cleaned ELSE cleaned
  IN IF prefixed = <<>> THEN ColumnLiteral ELSE prefixed

\* The while loop of processExcelFile: the name is taken while the map holds a
\* truthy value under it; the candidates are cleanName, cleanName_1, cleanName_2...
RECURSIVE NextFreeName(_, _, _, _)
NextFreeName(map, cleanName, candidate, counter) ==
  IF Truthy(ObjGet(map, candidate))
  THEN NextFreeName(map, cleanName, cleanName \o <<"_">> \o NatToString(counter), counter + 1)
  ELSE candidate

uniqueCleanName(map, originalCol) ==
  NextFreeName(map, cleanColumnName(originalCol), cleanColumnName(originalCol), 1)

\* originalColumns.forEach: the state after the first n columns, as the map from
\* clean to original names and the column descriptors pushed so far.
\* columnData[col] = jsonData.map(row => row[col])
ColumnData(jsonData, col) == [r \in DOMAIN jsonData |-> ObjGet(jsonData[r], col)]

\* columns.push({name, originalName, dataType, statistics})
Column(name, originalCol, values, dataType) ==
  [name |-> name, originalName |-> originalCol, dataType |-> dataType,
   statistics |-> calculateStatistics(values, dataType)]

PushColumn(prev, name, originalCol, values) ==
  [map |-> ObjSet(prev.map, name, JStr(originalCol)),
   columns |-> Append(prev.columns, Column(name, originalCol, values, inferDataType(values)))]

\* One round of originalColumns.forEach, from the map and the columns so far.
ProcessColumn(prev, originalCol, values) ==
  PushColumn(prev, uniqueCleanName(prev.map, originalCol), originalCol, values)

RECURSIVE ProcessColumns(_, _, _)
ProcessColumns(jsonData, originalColumns, n) ==
  IF n = 0 THEN [map |-> EmptyObject, columns |-> <<>>]
  ELSE ProcessColumn(ProcessColumns(jsonData, originalColumns, n - 1),
                     originalColumns[n], ColumnData(jsonData, originalColumns[n]))

\* jsonData.map(row => newRow): one key per clean name, in for-in order of the map.
TransformRow(row, map) ==
  LET names == ObjectKeys(map)
  IN [i \in DOMAIN names |->
        [k |-> names[i], v |-> ObjGet(row, JsString(ObjGet(map, names[i])))]]

IsEmptyCell(v) == v.k = "null" \/ (v.k = "string" /\ v.s = <<>>)
IsEmptyRow(row) == \A i \in DOMAIN row : IsEmptyCell(row[i].v)

KeyRowCount == <<"r", "o", "w", "C", "o", "u", "n", "t">>
KeyColumnCount == <<"c", "o", "l", "u", "m", "n", "C", "o", "u", "n", "t">>
KeyEmptyRows == <<"e", "m", "p", "t", "y", "R", "o", "w", "s">>
KeyDataTypes == <<"d", "a", "t", "a", "T", "y", "p", "e", "s">>

\* columns.reduce((acc, col) => { acc[col.dataType] = (acc[col.dataType] || 0) + 1 }, {})
RECURSIVE DataTypes(_, _)
DataTypes(columns, n) ==
  IF n = 0 THEN EmptyObject ELSE CountType(DataTypes(columns, n - 1), columns[n].dataType)

\* Summary with the first row taken for a header row, as the upload path counts.
SummaryHeaderCounted(jsonData, columns) ==
  << [k |-> KeyRowCount, v |-> JNum(Len(jsonData) - 1)],
     [k |-> KeyColumnCount, v |-> JNum(Len(columns))],
     [k |-> KeyEmptyRows, v |-> JNum(Len(SelectSeq(jsonData, IsEmptyRow)))],
     [k |-> KeyDataTypes, v |-> JObj(DataTypes(columns, Len(columns)))] >>

Summary(jsonData, columns) ==
  << [k |-> KeyRowCount, v |-> JNum(Len(jsonData))],
     [k |-> KeyColumnCount, v |-> JNum(Len(columns))],
     [k |-> KeyEmptyRows, v |-> JNum(Len(SelectSeq(jsonData, IsEmptyRow)))],
     [k |-> KeyDataTypes, v |-> JObj(DataTypes(columns, Len(columns)))] >>

\* The object processExcelFile returns once the columns are processed.
ProcessedData(jsonData, done) ==
  [columns |-> done.columns,
   data |-> [r \in DOMAIN jsonData |-> TransformRow(jsonData[r], done.map)],
   rowCount |-> Len(jsonData),
   summary |-> Summary(jsonData, done.columns)]

AllColumns(jsonData, originalColumns) ==
  ProcessColumns(jsonData, originalColumns, Len(originalColumns))

\* processExcelFile on the rows sheet_to_json(worksheet, {defval: null}) returns.
processExcelFile(jsonData) ==
  IF Len(jsonData) = 0
  THEN [columns |-> <<>>, data |-> <<>>, rowCount |-> 0, summary |-> EmptyObject]
  ELSE ProcessedData(jsonData, AllColumns(jsonData, ObjectKeys(jsonData[1])))

(***************************************************************************)
(* State.                                                                  *)
(*   file       the ExcelFile record the request's :id finds, or none      *)
(*   user       the requester, relative to the file: its owner, another    *)
(*              user, or an admin                                          *)
(*   worksheet  the rows XLSX.utils.sheet_to_json reads from the file on   *)
(*              disk, each an object keyed by the sheet's headers          *)
(*   excelData  the stored ExcelData document of (file, sheet), or none    *)
(*   storageUsed  the storageUsed of the file's owner                       *)
(*   docs       the ExcelData collection as parse requests that run        *)
(*              concurrently leave it, a document per save                 *)
(*   pending    the parse requests in flight when requests interleave      *)
(*   files      the ExcelFile collection when uploads and deletions        *)
(*              interleave: per id, the record or none                     *)
(*   accounts   the User collection: per user, the stored fields           *)
(*   clock      Date.now(), in milliseconds                                *)
(*   history    per user, what the requests have done to the account: the  *)
(*              OTP forgot-password generated last and when, the number of *)
(*              logins answered 200                                        *)
(*   query      the last request handled                                   *)
(*   res        its response                                               *)
(*   fetched    a client paging through an endpoint: the next page to ask  *)
(*              for and the rows received so far                           *)
(***************************************************************************)
VARIABLES file, user, worksheet, excelData, query, res, fetched,
          storageUsed, docs, pending, files, accounts, clock, history

vars == <<file, user, worksheet, excelData, query, res, fetched, storageUsed, docs, pending,
          files, accounts, clock, history>>

NoDoc == [exists |-> FALSE, user |-> "none", sheetName |-> <<>>, columns |-> <<>>,
          data |-> <<>>, rowCount |-> 0, summary |-> EmptyObject]

\* file.fileSize, counted in the owner's storageUsed at upload.
FileSize == 5

\* No request is in flight, the collection is the one document excelData, and the
\* file and user collections and the clock play no part.
Serial ==
  /\ storageUsed = FileSize /\ docs = <<>> /\ pending = <<>>
  /\ files = <<>> /\ accounts = <<>> /\ clock = 0 /\ history = <<>>

NoQuery == [endpoint |-> "none", fault |-> "none", sheet |-> JUndef, chartType |-> JUndef, xAxis |-> JUndef,
            yAxis |-> JUndef, groupBy |-> JUndef, limit |-> JUndef, page |-> JUndef]

Query(endpoint) == [NoQuery EXCEPT !.endpoint = endpoint]

NoRes == [status |-> 0, error |-> "", message |-> "", body |-> <<>>]

Fail(status, error) == [status |-> status, error |-> error, message |-> "", body |-> <<>>]

\* A client collecting the pages 1, 2, ... of one endpoint under one limit: the
\* next page to ask for, the rows received, the totalPages last reported.
NotFetching == [endpoint |-> "none", limit |-> JUndef, next |-> 1, rows |-> <<>>,
                totalPages |-> 0]

\* file.user.toString() !== req.user.id && req.user.role !== 'admin'
NotAuthorized(u) == u # "owner" /\ u # "admin"

\* The workbook of the uploaded file has one sheet.
FirstSheet == <<"S", "h", "e", "e", "t", "1">>
SheetNames == <<FirstSheet>>

\* req.query.sheet || file.sheets[0].name (workbook.SheetNames[0])
SheetName(q) == JsString(JsOr(q.sheet, JStr(SheetNames[1])))

\* workbook.SheetNames.includes(sheetName)
IncludesSheet(sheetName) == \E i \in DOMAIN SheetNames : SheetNames[i] = sheetName

\* ExcelData.findOne({file, sheetName}): the document stored for the first sheet.
FindExcelData(stored, q) == stored.exists /\ stored.sheetName = SheetName(q)

(***************************************************************************)
(* POST /:id/parse                                                         *)
(***************************************************************************)
\* new ExcelData({...}) from the processor's result.
NewExcelData(processedData, u, sheetName) ==
  [exists |-> TRUE,
   user |-> u,
   sheetName |-> sheetName,
   columns |-> processedData.columns,
   data |-> processedData.data,
   rowCount |-> processedData.rowCount,
   summary |-> processedData.summary]

\* await excelData.save(); res.json({success: true, data: excelData})
SaveAndRespond(doc) ==
  [res |-> [status |-> 200, error |-> "", message |-> "", body |-> doc],
   excelData |-> doc]

UnknownSheet == <<"O", "t", "h", "e", "r">>

\* req.body.sheetName: absent, the sheet of the workbook, a name not in it.
BodySheetNames == {JUndef, JStr(FirstSheet), JStr(UnknownSheet)}

\* What can go wrong outside the handler's own checks: XLSX.readFile throws on
\* the file, the statistics throw, the save is rejected.
Faults == {"none", "read", "statistics", "save"}

\* Sheet "${sheetToProcess}" not found in workbook (the double quote is written dquote)
SheetNotFoundMessage(sheetToProcess) ==
  <<"S", "h", "e", "e", "t", " ", "dquote">> \o sheetToProcess \o
  <<"dquote", " ", "n", "o", "t", " ", "f", "o", "u", "n", "d", " ", "i", "n", " ",
    "w", "o", "r", "k", "b", "o", "o", "k">>

\* The message of an error a library throws, named by the call that throws it.
ThrownBy(call) == <<call>>

Threw(message) == [threw |-> TRUE, message |-> message, value |-> <<>>]
Returned(value) == [threw |-> FALSE, message |-> <<>>, value |-> value]

\* excelProcessor.processExcelFile(filePath, sheetName) on a file that is on disk:
\* the object it returns, or the error it throws.
ProcessSheet(sheet, sheetName, fault) ==
  IF fault = "read" THEN Threw(ThrownBy("XLSX.readFile"))
  ELSE IF ~IncludesSheet(sheetName) THEN Threw(SheetNotFoundMessage(sheetName))
  ELSE IF fault = "statistics" THEN Threw(ThrownBy("calculateStatistics"))
  ELSE Returned(processExcelFile(sheet))

\* catch (err): res.status(500).json({success: false, error: 'Server error: ' + err.message});
\* detail is err.message.
ServerError(message) ==
  [status |-> 500, error |-> "Server error: ", detail |-> message, message |-> "",
   body |-> <<>>]

\* A save that fails after the document has reached the collection.
SaveThenFail(u, stored, sheetName, processed, fault) ==
  IF processed.threw THEN [res |-> ServerError(processed.message), excelData |-> stored]
  ELSE IF fault = "save"
  THEN [res |-> ServerError(ThrownBy("excelData.save")),
        excelData |-> NewExcelData(processed.value, u, sheetName)]
  ELSE SaveAndRespond(NewExcelData(processed.value, u, sheetName))

\* new ExcelData(...), save and answer, or the catch block.
SaveProcessed(u, stored, sheetName, processed, fault) ==
  IF processed.threw THEN [res |-> ServerError(processed.message), excelData |-> stored]
  ELSE IF fault = "save"
  THEN [res |-> ServerError(ThrownBy("excelData.save")), excelData |-> stored]
  ELSE SaveAndRespond(NewExcelData(processed.value, u, sheetName))

\* The handler from the sheet name on, without the look for existing data.
ParseSheetAgain(u, sheet, stored, sheetName, fault) ==
  SaveProcessed(u, stored, sheetName, ProcessSheet(sheet, sheetName, fault), fault)

\* The handler from the sheet name on.
ParseSheet(u, sheet, stored, sheetName, fault) ==
  IF stored.exists /\ stored.sheetName = sheetName
  THEN [res |-> [status |-> 200, error |-> "", message |-> "Sheet already processed",
                 body |-> stored],
        excelData |-> stored]
  ELSE SaveProcessed(u, stored, sheetName, ProcessSheet(sheet, sheetName, fault), fault)

\* The handler on a request whose body holds bodySheet as sheetName.
ParseResult(f, u, sheet, stored, bodySheet, fault) ==
  IF f = "absent" THEN [res |-> Fail(404, "File not found"), excelData |-> stored]
  ELSE IF NotAuthorized(u)
  THEN [res |-> Fail(403, "Not authorized to access this file"), excelData |-> stored]
  ELSE IF f = "missing"
  THEN [res |-> Fail(404, "File not found on disk"), excelData |-> stored]
  ELSE ParseSheet(u, sheet, stored, JsString(JsOr(bodySheet, JStr(SheetNames[1]))), fault)

\* The handler on a request without a sheetName, nothing going wrong outside it.
ParseOutcome(f, u, sheet, stored) == ParseResult(f, u, sheet, stored, JUndef, "none")

ParseEffect(out) ==
  /\ res' = out.res
  /\ excelData' = out.excelData

Parse ==
  /\ ParseEffect(ParseOutcome(file, user, worksheet, excelData))
  /\ query' = Query("parse")
  /\ UNCHANGED <<file, user, worksheet, fetched, storageUsed, docs, pending, files, accounts, clock, history>>

\* A parse request of any requester, with any sheetName in its body.
ParseRequest ==
  \E u \in {"owner", "admin", "other"}, bodySheet \in BodySheetNames, fault \in Faults :
    /\ ParseEffect(ParseResult(file, u, worksheet, excelData, bodySheet, fault))
    /\ user' = u
    /\ query' = [Query("parse") EXCEPT !.sheet = bodySheet, !.fault = fault]
    /\ UNCHANGED <<file, worksheet, fetched, storageUsed, docs, pending, files, accounts, clock, history>>

(***************************************************************************)
(* GET /:id/chart-data                                                     *)
(***************************************************************************)
DefaultChartLimit == 1000

StrPie == <<"p", "i", "e">>
StrDoughnut == <<"d", "o", "u", "g", "h", "n", "u", "t">>
StrScatter == <<"s", "c", "a", "t", "t", "e", "r">>
StrBar == <<"b", "a", "r">>
StrCount == <<"C", "o", "u", "n", "t">>
StrVs == <<" ", "v", "s", " ">>

\* row[axis], the axis being a query value used as the property name.
Cell(row, axis) == ObjGet(row, JsString(axis))

\* if (!obj[key]) obj[key] = 0
InitZero(obj, key) == IF Truthy(ObjGet(obj, key)) THEN obj ELSE ObjSet(obj, key, JNum(0))

\* obj[key] += inc
AddTo(obj, key, inc) == ObjSet(obj, key, JsAdd(ObjGet(obj, key), inc))

\* pie and doughnut: grouped[key] += Number(row[yAxis]) || 1, else += 1.
PieIncrement(row, yAxis) ==
  IF Truthy(yAxis) /\ ~IsNullish(Cell(row, yAxis))
  THEN JsOr(ToNumber(Cell(row, yAxis)), JNum(1))
  ELSE JNum(1)

PieRow(grouped, row, xAxis, yAxis) ==
  IF IsNullish(Cell(row, xAxis)) THEN grouped
  ELSE AddTo(InitZero(grouped, JsString(Cell(row, xAxis))),
             JsString(Cell(row, xAxis)), PieIncrement(row, yAxis))

\* chartData.forEach of the pie branch, after the first n rows.
RECURSIVE PieGrouped(_, _, _, _)
PieGrouped(chartData, n, xAxis, yAxis) ==
  IF n = 0 THEN EmptyObject
  ELSE PieRow(PieGrouped(chartData, n - 1, xAxis, yAxis), chartData[n], xAxis, yAxis)

Strings(keys) == [i \in DOMAIN keys |-> JStr(keys[i])]

PieChart(grouped) ==
  [labels |-> Strings(ObjectKeys(grouped)),
   datasets |-> << [data |-> ObjectValues(grouped)] >>]

\* scatter: rows whose x and y are both !== null, as {x, y} pairs in row order.
RECURSIVE ScatterData(_, _, _)
ScatterData(chartData, xAxis, yAxis) ==
  IF chartData = <<>> THEN <<>>
  ELSE IF Cell(chartData[1], xAxis).k # "null" /\ Cell(chartData[1], yAxis).k # "null"
       THEN <<[x |-> Cell(chartData[1], xAxis), y |-> Cell(chartData[1], yAxis)]>>
            \o ScatterData(Tail(chartData), xAxis, yAxis)
       ELSE ScatterData(Tail(chartData), xAxis, yAxis)

ScatterChart(chartData, xAxis, yAxis) ==
  [datasets |-> << [label |-> JStr(JsString(yAxis) \o StrVs \o JsString(xAxis)),
                    data |-> ScatterData(chartData, xAxis, yAxis)] >>]

\* bar, line, area with groupBy: the increment of one row.
GroupIncrement(row, yAxis) ==
  IF Truthy(yAxis) /\ Cell(row, yAxis).k # "null"
  THEN JsOr(ToNumber(Cell(row, yAxis)), JNum(0))
  ELSE JNum(1)

\* if (!grouped[groupKey]) grouped[groupKey] = {}
InitGroup(grouped, groupKey) ==
  IF Truthy(ObjGet(grouped, groupKey)) THEN grouped
  ELSE ObjSet(grouped, groupKey, JObj(EmptyObject))

Inner(grouped, groupKey) ==
  IF ObjGet(grouped, groupKey).k = "object" THEN ObjGet(grouped, groupKey).s
  ELSE EmptyObject

\* grouped[groupKey][xValue] += inc.  When grouped[groupKey] is inherited, the
\* write lands on the inherited value and grouped keeps its own properties.
AddToGroup(grouped, groupKey, xKey, inc) ==
  IF ObjHasOwn(grouped, groupKey)
  THEN ObjSet(grouped, groupKey,
              JObj(AddTo(InitZero(Inner(grouped, groupKey), xKey), xKey, inc)))
  ELSE grouped

GroupRow(grouped, row, xAxis, yAxis, groupBy) ==
  AddToGroup(InitGroup(grouped, JsString(Cell(row, groupBy))),
             JsString(Cell(row, groupBy)), JsString(Cell(row, xAxis)),
             GroupIncrement(row, yAxis))

RECURSIVE Grouped(_, _, _, _, _)
Grouped(chartData, n, xAxis, yAxis, groupBy) ==
  IF n = 0 THEN EmptyObject
  ELSE GroupRow(Grouped(chartData, n - 1, xAxis, yAxis, groupBy), chartData[n],
                xAxis, yAxis, groupBy)

\* The x values without the sort: [...new Set(chartData.map(row => row[xAxis]))].
AllXValuesUnsorted(chartData, xAxis) ==
  Distinct([i \in DOMAIN chartData |-> Cell(chartData[i], xAxis)])

\* [...new Set(chartData.map(row => row[xAxis]))].sort()
AllXValues(chartData, xAxis) ==
  ArraySort(Distinct([i \in DOMAIN chartData |-> Cell(chartData[i], xAxis)]))

\* allXValues.map(xVal => grouped[groupKey][xVal] || 0)
GroupSeries(inner, allXValues) ==
  [j \in DOMAIN allXValues |-> JsOr(ObjGet(inner, JsString(allXValues[j])), JNum(0))]

GroupDatasets(grouped, groupKeys, allXValues) ==
  [i \in DOMAIN groupKeys |->
     [label |-> JStr(groupKeys[i]),
      data |-> GroupSeries(Inner(grouped, groupKeys[i]), allXValues),
      hue |-> (i - 1) * 60]]

GroupChart(grouped, allXValues) ==
  [labels |-> allXValues,
   datasets |-> GroupDatasets(grouped, ObjectKeys(grouped), allXValues)]

\* A sum that counts 1 for a value that is no number, as the pie branch does.
SumRowOrOne(aggregated, row, xAxis, yAxis) ==
  IF IsNullish(Cell(row, xAxis)) THEN aggregated
  ELSE AddTo(InitZero(aggregated, JsString(Cell(row, xAxis))),
             JsString(Cell(row, xAxis)),
             JsOr(ToNumber(Cell(row, yAxis)), JNum(1)))

\* Simple x-y chart with yAxis: aggregated[xValue] += Number(row[yAxis]) || 0.
SumRow(aggregated, row, xAxis, yAxis) ==
  IF IsNullish(Cell(row, xAxis)) THEN aggregated
  ELSE AddTo(InitZero(aggregated, JsString(Cell(row, xAxis))),
             JsString(Cell(row, xAxis)),
             JsOr(ToNumber(Cell(row, yAxis)), JNum(0)))

\* Simple x-y chart without yAxis: counts[xValue] = (counts[xValue] || 0) + 1.
CountRow(counts, row, xAxis, yAxis) ==
  IF IsNullish(Cell(row, xAxis)) THEN counts
  ELSE ObjSet(counts, JsString(Cell(row, xAxis)),
              JsAdd(JsOr(ObjGet(counts, JsString(Cell(row, xAxis))), JNum(0)), JNum(1)))

SimpleRow(acc, row, xAxis, yAxis) ==
  IF Truthy(yAxis) THEN SumRow(acc, row, xAxis, yAxis)
  ELSE CountRow(acc, row, xAxis, yAxis)

RECURSIVE Aggregated(_, _, _, _)
Aggregated(chartData, n, xAxis, yAxis) ==
  IF n = 0 THEN EmptyObject
  ELSE SimpleRow(Aggregated(chartData, n - 1, xAxis, yAxis), chartData[n], xAxis, yAxis)

\* Object.keys(aggregated).sort()
SortedKeys(aggregated) == ArraySort(Strings(ObjectKeys(aggregated)))

SimpleSeries(aggregated, labels) ==
  [i \in DOMAIN labels |-> ObjGet(aggregated, labels[i].s)]

SimpleDatasets(aggregated, labels, yAxis) ==
  [labels |-> labels,
   datasets |-> << [label |-> JsOr(yAxis, JStr(StrCount)),
                    data |-> SimpleSeries(aggregated, labels)] >>]

SimpleChart(aggregated, yAxis) == SimpleDatasets(aggregated, SortedKeys(aggregated), yAxis)

ChartOk(q, chartData, formattedData) ==
  [status |-> 200, error |-> "", message |-> "",
   body |-> [chartType |-> JsOr(q.chartType, JStr(StrBar)),
             xAxis |-> q.xAxis, yAxis |-> q.yAxis, groupBy |-> q.groupBy,
             dataPoints |-> Len(chartData),
             chartData |-> formattedData]]

\* The branches on chartType, for the rows left after the limit.
FormatChart(q, chartType, chartData) ==
  IF chartType = StrPie \/ chartType = StrDoughnut
  THEN ChartOk(q, chartData, PieChart(PieGrouped(chartData, Len(chartData), q.xAxis, q.yAxis)))
  ELSE IF chartType = StrScatter
  THEN IF ~Truthy(q.yAxis)
       THEN Fail(400, "yAxis parameter is required for scatter charts")
       ELSE ChartOk(q, chartData, ScatterChart(chartData, q.xAxis, q.yAxis))
  ELSE IF Truthy(q.groupBy)
  THEN ChartOk(q, chartData,
               GroupChart(Grouped(chartData, Len(chartData), q.xAxis, q.yAxis, q.groupBy),
                          AllXValues(chartData, q.xAxis)))
  ELSE ChartOk(q, chartData,
               SimpleChart(Aggregated(chartData, Len(chartData), q.xAxis, q.yAxis), q.yAxis))

\* A limit that ignores the query.
ChartLimitIgnored(q) == DefaultChartLimit

\* parseInt(req.query.limit, 10) || 1000
ChartLimit(q) == JsOr(ParseInt(q.limit), JNum(DefaultChartLimit)).n

\* The handler without its check of xAxis.
ChartDataResponseUnchecked(f, u, stored, q) ==
  IF f = "absent" THEN Fail(404, "File not found")
  ELSE IF NotAuthorized(u) THEN Fail(403, "Not authorized to access this file")
  ELSE IF ~FindExcelData(stored, q)
  THEN Fail(404, "Processed data not found for this sheet. Please parse the file first.")
  ELSE FormatChart(q, JsString(JsOr(q.chartType, JStr(StrBar))),
                   ArraySlice(stored.data, 0, ChartLimit(q)))

ChartDataResponse(f, u, stored, q) ==
  IF f = "absent" THEN Fail(404, "File not found")
  ELSE IF NotAuthorized(u) THEN Fail(403, "Not authorized to access this file")
  ELSE IF ~FindExcelData(stored, q)
  THEN Fail(404, "Processed data not found for this sheet. Please parse the file first.")
  ELSE IF ~Truthy(q.xAxis) THEN Fail(400, "xAxis parameter is required")
  ELSE FormatChart(q, JsString(JsOr(q.chartType, JStr(StrBar))),
                   ArraySlice(stored.data, 0, ChartLimit(q)))

(***************************************************************************)
(* GET /:id/data, GET /:id/analyze and GET /:id/table-data: pagination.    *)
(***************************************************************************)
DefaultDataLimit == 100
DefaultAnalyzeLimit == 100
DefaultTableLimit == 10

\* parseInt(req.query.page, 10) || 1
PageOf(q) == JsOr(ParseInt(q.page), JNum(1)).n

\* parseInt(req.query.limit, 10) || default
LimitOf(q, default) == JsOr(ParseInt(q.limit), JNum(default)).n

\* Math.ceil(total / limit) for a limit other than 0.
Ceil(total, limit) ==
  IF limit > 0 THEN (total + limit - 1) \div limit ELSE 0 - (total \div (0 - limit))

\* A slice that takes one row more than the page: data.slice(startIndex, endIndex + 1).
PaginatedDataOverlapping(data, page, limit) ==
  ArraySlice(data, (page - 1) * limit, page * limit + 1)

\* data.slice(startIndex, endIndex) with startIndex = (page - 1) * limit and
\* endIndex = page * limit.
PaginatedData(data, page, limit) == ArraySlice(data, (page - 1) * limit, page * limit)

DataPagination(stored, page, limit) ==
  [page |-> page, limit |-> limit, totalRows |-> stored.rowCount,
   totalPages |-> Ceil(stored.rowCount, limit),
   hasNextPage |-> page * limit < stored.rowCount,
   hasPrevPage |-> page > 1,
   startIndex |-> (page - 1) * limit + 1,
   endIndex |-> Min(page * limit, stored.rowCount),
   returnedRows |-> Len(PaginatedData(stored.data, page, limit))]

DataOk(stored, page, limit) ==
  [status |-> 200, error |-> "", message |-> "",
   body |-> [sheetName |-> FirstSheet, columns |-> stored.columns,
             summary |-> stored.summary,
             pagination |-> DataPagination(stored, page, limit),
             data |-> PaginatedData(stored.data, page, limit)]]

DataResponse(f, u, stored, q) ==
  IF f = "absent" THEN Fail(404, "File not found")
  ELSE IF NotAuthorized(u) THEN Fail(403, "Not authorized to access this file")
  ELSE IF ~FindExcelData(stored, q)
  THEN Fail(404, "Processed data not found for this sheet. Please parse the file first.")
  ELSE DataOk(stored, PageOf(q), LimitOf(q, DefaultDataLimit))

\* Object.keys(data[0] || {})
FirstRowKeys(data) == IF data = <<>> THEN <<>> ELSE ObjectKeys(data[1])

\* data.map(row => row[column]).filter(val => typeof val === 'number')
IsNumber(v) == v.k \in {"number", "nan"}
ColumnValues(data, column) == [i \in DOMAIN data |-> ObjGet(data[i], column)]
NumericValues(data, column) == SelectSeq(ColumnValues(data, column), IsNumber)

RECURSIVE SumOf(_)
SumOf(values) == IF values = <<>> THEN 0 ELSE values[1].n + SumOf(Tail(values))

MinOf(values) == CHOOSE m \in {values[i].n : i \in DOMAIN values} :
                   \A i \in DOMAIN values : m <= values[i].n
MaxOf(values) == CHOOSE m \in {values[i].n : i \in DOMAIN values} :
                   \A i \in DOMAIN values : m >= values[i].n

\* The summary of one column; avg is the quotient sum / count, kept as the pair.
NumericSummary(values) ==
  [type |-> "numeric", count |-> Len(values), sum |-> SumOf(values),
   avg |-> [dividend |-> SumOf(values), divisor |-> Len(values)],
   min |-> MinOf(values), max |-> MaxOf(values)]

CategoricalSummary(data, column) ==
  [type |-> "categorical", count |-> Len(data),
   uniqueCount |-> Len(Distinct(ColumnValues(data, column)))]

ColumnSummary(data, column) ==
  IF Len(NumericValues(data, column)) > 0
  THEN NumericSummary(NumericValues(data, column))
  ELSE CategoricalSummary(data, column)

Analytics(data, columns) ==
  [rowCount |-> Len(data), columns |-> columns,
   summary |-> [i \in DOMAIN columns |-> [k |-> columns[i], v |-> ColumnSummary(data, columns[i])]]]

AnalyzePagination(data, page, limit) ==
  [page |-> page, limit |-> limit, totalRows |-> Len(data),
   totalPages |-> Ceil(Len(data), limit),
   hasNextPage |-> page * limit < Len(data),
   hasPrevPage |-> page > 1,
   isPreview |-> FALSE]

AnalyzeOk(data, page, limit) ==
  [status |-> 200, error |-> "", message |-> "",
   body |-> [sheetName |-> FirstSheet,
             analytics |-> Analytics(data, FirstRowKeys(data)),
             totalRows |-> Len(data),
             returnedRows |-> Len(PaginatedData(data, page, limit)),
             pagination |-> AnalyzePagination(data, page, limit),
             data |-> PaginatedData(data, page, limit)]]

\* The checks analyze and table-data make before they read the sheet; NoRes
\* says that all of them passed.
SheetAccess(f, u, q) ==
  IF f = "absent" THEN Fail(404, "File not found")
  ELSE IF NotAuthorized(u) THEN Fail(403, "Not authorized to access this file")
  ELSE IF f = "missing" THEN Fail(404, "File not found on disk")
  ELSE IF ~IncludesSheet(SheetName(q)) THEN Fail(404, "Sheet not found in Excel file")
  ELSE NoRes

\* data is XLSX.utils.sheet_to_json(worksheet): the rows of the sheet.
AnalyzeResponse(f, u, data, q) ==
  IF SheetAccess(f, u, q) # NoRes THEN SheetAccess(f, u, q)
  ELSE AnalyzeOk(data, PageOf(q), LimitOf(q, DefaultAnalyzeLimit))

\* A table-data envelope whose hasNextPage counts the last row of the page as
\* a row after it.
TablePaginationInclusive(data, page, limit) ==
  [page |-> page, limit |-> limit, totalRows |-> Len(data),
   totalPages |-> Ceil(Len(data), limit),
   hasNextPage |-> page * limit <= Len(data),
   hasPrevPage |-> page > 1,
   startIndex |-> (page - 1) * limit + 1,
   endIndex |-> Min(page * limit, Len(data))]

TablePagination(data, page, limit) ==
  [page |-> page, limit |-> limit, totalRows |-> Len(data),
   totalPages |-> Ceil(Len(data), limit),
   hasNextPage |-> page * limit < Len(data),
   hasPrevPage |-> page > 1,
   startIndex |-> (page - 1) * limit + 1,
   endIndex |-> Min(page * limit, Len(data))]

TableOk(data, page, limit) ==
  [status |-> 200, error |-> "", message |-> "",
   body |-> [sheetName |-> FirstSheet, totalRows |-> Len(data),
             returnedRows |-> Len(PaginatedData(data, page, limit)),
             columns |-> FirstRowKeys(data),
             pagination |-> TablePagination(data, page, limit),
             data |-> PaginatedData(data, page, limit)]]

TableDataResponse(f, u, data, q) ==
  IF SheetAccess(f, u, q) # NoRes THEN SheetAccess(f, u, q)
  ELSE TableOk(data, PageOf(q), LimitOf(q, DefaultTableLimit))

(***************************************************************************)
(* GET /:id and DELETE /:id                                                *)
(***************************************************************************)
\* The ExcelFile record findById returns.
FileRecord == [fileSize |-> FileSize, sheets |-> SheetNames]

Ok(body) == [status |-> 200, error |-> "", message |-> "", body |-> body]

GetFileResponse(f, u) ==
  IF f = "absent" THEN Fail(404, "File not found")
  ELSE IF NotAuthorized(u) THEN Fail(403, "Not authorized to access this file")
  ELSE Ok(FileRecord)

\* A response that leaves the file, its data and storageUsed as they are.
Kept(response, f, stored, used) ==
  [res |-> response, file |-> f, excelData |-> stored, storageUsed |-> used]

\* DELETE /:id without the ownership check.
DeleteUnchecked(f, u, stored, used) ==
  IF f = "absent" THEN Kept(Fail(404, "File not found"), f, stored, used)
  ELSE [res |-> Ok(EmptyObject), file |-> "absent", excelData |-> NoDoc,
        storageUsed |-> used - FileSize]

\* DELETE /:id without ExcelData.deleteMany({file: file._id}).
DeleteKeepsData(f, u, stored, used) ==
  IF f = "absent" THEN Kept(Fail(404, "File not found"), f, stored, used)
  ELSE IF NotAuthorized(u)
  THEN Kept(Fail(403, "Not authorized to delete this file"), f, stored, used)
  ELSE [res |-> Ok(EmptyObject), file |-> "absent", excelData |-> stored,
        storageUsed |-> used - FileSize]

\* DELETE /:id: unlink the file on disk, deleteMany the data, decrement
\* storageUsed by file.fileSize, delete the record.
DeleteOutcome(f, u, stored, used) ==
  IF f = "absent" THEN Kept(Fail(404, "File not found"), f, stored, used)
  ELSE IF NotAuthorized(u)
  THEN Kept(Fail(403, "Not authorized to delete this file"), f, stored, used)
  ELSE [res |-> Ok(EmptyObject), file |-> "absent", excelData |-> NoDoc,
        storageUsed |-> used - FileSize]

(***************************************************************************)
(* GET /:id/chart-metadata                                                 *)
(***************************************************************************)
SuitableFor(dataType) ==
  IF dataType = TypeNumber THEN <<"x-axis", "y-axis", "value", "size">>
  ELSE IF dataType = TypeDate THEN <<"x-axis", "category">>
  ELSE IF dataType = TypeString THEN <<"category", "label", "group">>
  ELSE <<>>

\* column.nullable is true by the schema's default.
AvailableField(column) ==
  [name |-> column.name, label |-> column.originalName, dataType |-> column.dataType,
   suitableFor |-> SuitableFor(column.dataType), statistics |-> column.statistics,
   nullable |-> TRUE]

HasType(columns, dataType) == \E i \in DOMAIN columns : columns[i].dataType = dataType

RecommendedCharts(hasNumeric, hasDate, hasCategorical) ==
  Distinct((IF hasNumeric /\ hasCategorical THEN <<"bar", "line", "pie">> ELSE <<>>) \o
           (IF hasNumeric /\ hasDate THEN <<"line", "area">> ELSE <<>>) \o
           (IF hasNumeric THEN <<"scatter", "histogram">> ELSE <<>>) \o
           (IF hasCategorical THEN <<"pie", "doughnut">> ELSE <<>>))

ChartMetadataOk(stored) ==
  Ok([sheetName |-> stored.sheetName,
      availableFields |-> [i \in DOMAIN stored.columns |-> AvailableField(stored.columns[i])],
      recommendedCharts |-> RecommendedCharts(HasType(stored.columns, TypeNumber),
                                              HasType(stored.columns, TypeDate),
                                              HasType(stored.columns, TypeString)),
      summary |-> stored.summary])

ChartMetadataResponse(f, u, stored, q) ==
  IF f = "absent" THEN Fail(404, "File not found")
  ELSE IF NotAuthorized(u) THEN Fail(403, "Not authorized to access this file")
  ELSE IF ~FindExcelData(stored, q)
  THEN Fail(404, "Processed data not found for this sheet. Please parse the file first.")
  ELSE ChartMetadataOk(stored)

(***************************************************************************)
(* GET /:id/download-data and GET /:id/preview                             *)
(***************************************************************************)
DownloadDataResponse(f, u, data, q) ==
  IF SheetAccess(f, u, q) # NoRes THEN SheetAccess(f, u, q)
  ELSE Ok([sheetName |-> SheetName(q), totalRows |-> Len(data),
           columns |-> FirstRowKeys(data), data |-> data])

DefaultPreviewLimit == 10

\* XLSX.utils.sheet_to_json(worksheet, {header: 1}): the header row, then one
\* array per row; nothing for a sheet without cells.
RowsAsArrays(data) ==
  IF data = <<>> THEN <<>>
  ELSE <<ObjectKeys(data[1])>> \o [r \in DOMAIN data |-> ObjectValues(data[r])]

PreviewOk(jsonData, limit) ==
  Ok([columns |-> IF jsonData = <<>> THEN <<>> ELSE jsonData[1],
      rowCount |-> Len(jsonData) - 1,
      previewData |-> ArraySlice(jsonData, 0, Min(limit + 1, Len(jsonData))),
      requestedLimit |-> limit,
      actualDataRows |-> Len(ArraySlice(jsonData, 0, Min(limit + 1, Len(jsonData)))) - 1,
      totalRows |-> Len(jsonData) - 1])

PreviewResponse(f, u, data, q) ==
  IF SheetAccess(f, u, q) # NoRes THEN SheetAccess(f, u, q)
  ELSE PreviewOk(RowsAsArrays(data), LimitOf(q, DefaultPreviewLimit))

(***************************************************************************)
(* Sheets for the sheet processor: headers that collide after cleaning,    *)
(* that clean to nothing, that already carry a suffix, that are array      *)
(* indexes, and that spell an inherited property.                          *)
(***************************************************************************)
MaxCols == 3
MaxProcRows == 2

HeaderPool ==
  { <<"_", "_", "E", "M", "P", "T", "Y">>,
    <<"$">>,
    <<"C", "o", "l", "u", "m", "n">>,
    <<"S", "a", "l", "e", "s", " ", "$">>,
    <<"S", "a", "l", "e", "s", " ", "#">>,
    <<"s", "a", "l", "e", "s", "_", "_", "1">>,
    <<"2", "0", "2", "3">>,
    <<"C", "o", "n", "s", "t", "r", "u", "c", "t", "o", "r">> }

\* The header rows: sequences of distinct headers (sheet_to_json never gives two
\* columns the same key).
HeaderRows(maxCols) ==
  UNION { { h \in [1..n -> HeaderPool] : \A i, j \in 1..n : i # j => h[i] # h[j] }
          : n \in 1..maxCols }

\* A data row holds one value in every cell: null (an empty row) or a number.
ProcCells == {JNull, JNum(7)}

SheetRow(headers, cell) == [i \in DOMAIN headers |-> [k |-> headers[i], v |-> cell]]

ProcSheets(maxCols, maxRows) ==
  { [r \in DOMAIN cells |-> SheetRow(h, cells[r])] :
      h \in HeaderRows(maxCols), cells \in UNION { [1..n -> ProcCells] : n \in 0..maxRows } }

ProcInit ==
  /\ file = "present"
  /\ user = "owner"
  /\ worksheet \in ProcSheets(MaxCols, MaxProcRows)
  /\ excelData = NoDoc
  /\ query = NoQuery
  /\ res = NoRes
  /\ fetched = NotFetching
  /\ Serial

ProcNext == Parse

SpecProc == ProcInit /\ [][ProcNext]_vars

(***************************************************************************)
(* Sheets of one column and one row, for the name of a column: the header  *)
(* is any text of up to MaxNameLen characters over letters of both cases,  *)
(* a digit, the underscore, whitespace, the dot and a special character,   *)
(* or one of two longer headers.                                           *)
(***************************************************************************)
MaxNameLen == 3

NameAlphabet == {"A", "b", "1", "_", " ", "tab", ".", "$"}

SalesAmountUsd ==
  <<"S", "a", "l", "e", "s", " ", "A", "m", "o", "u", "n", "t", " ", "(", "U", "S", "D", ")">>

Year2023 == <<"2", "0", "2", "3">>

NameHeaders(maxLen) ==
  UNION { [1..n -> NameAlphabet] : n \in 1..maxLen } \cup {SalesAmountUsd, Year2023}

NameSheets(maxLen) == { << << [k |-> h, v |-> JNum(1)] >> >> : h \in NameHeaders(maxLen) }

NameInit ==
  /\ file = "present"
  /\ user = "owner"
  /\ worksheet \in NameSheets(MaxNameLen)
  /\ excelData = NoDoc
  /\ query = NoQuery
  /\ res = NoRes
  /\ fetched = NotFetching
  /\ Serial

NameNext == Parse

SpecName == NameInit /\ [][NameNext]_vars

(***************************************************************************)
(* Sheets of one column, for the type and the statistics of a column: the  *)
(* cells are null, numbers, text, an ISO date and a boolean.               *)
(***************************************************************************)
MaxValues == 4

HdrValue == <<"V", "a", "l", "u", "e">>

ValuePool ==
  { JNull, JNum(10), JNum(20), JNum(30), JStr(<<"a", "b", "c">>),
    JStr(<<"2", "0", "2", "3", "-", "0", "1", "-", "1", "5">>), JBool(TRUE) }

ColumnSheets(maxValues) ==
  UNION { { [r \in 1..n |-> << [k |-> HdrValue, v |-> cells[r]] >>] : cells \in [1..n -> ValuePool] }
          : n \in 0..maxValues }

ColumnInit ==
  /\ file = "present"
  /\ user = "owner"
  /\ worksheet \in ColumnSheets(MaxValues)
  /\ excelData = NoDoc
  /\ query = NoQuery
  /\ res = NoRes
  /\ fetched = NotFetching
  /\ Serial

ColumnNext == Parse

SpecColumn == ColumnInit /\ [][ColumnNext]_vars

(***************************************************************************)
(* Chart requests on stored sheets.  The sheets have the headers Region,   *)
(* Amount and Team; the rows hold text and numeric categories (9 and 10    *)
(* are array-index keys), a zero, a null and a non-numeric amount, and a   *)
(* null category.                                                          *)
(***************************************************************************)
MaxRows == 3
MaxAccessRows == 1

Text(s) == JStr(s)

HdrRegion == <<"R", "e", "g", "i", "o", "n">>
HdrAmount == <<"A", "m", "o", "u", "n", "t">>
HdrTeam == <<"T", "e", "a", "m">>
North == Text(<<"N", "o", "r", "t", "h">>)
South == Text(<<"S", "o", "u", "t", "h">>)
TeamA == Text(<<"A">>)
TeamB == Text(<<"B">>)
NotANumber == Text(<<"a", "b", "c">>)

ChartRow(region, amount, team) ==
  << [k |-> HdrRegion, v |-> region], [k |-> HdrAmount, v |-> amount],
     [k |-> HdrTeam, v |-> team] >>

ChartRowPool ==
  { ChartRow(North, JNum(500), TeamA),
    ChartRow(South, JNum(300), TeamB),
    ChartRow(North, JNum(200), TeamB),
    ChartRow(JNum(10), JNum(0), TeamA),
    ChartRow(JNum(9), JNull, TeamB),
    ChartRow(South, NotANumber, TeamA),
    ChartRow(JNull, JNum(300), TeamA) }

ChartSheets(maxRows) == UNION { [1..n -> ChartRowPool] : n \in 0..maxRows }

\* The query values of a chart request: a parameter is absent or a string.
ChartTypes ==
  { JUndef, Text(<<"l", "i", "n", "e">>), Text(<<"a", "r", "e", "a">>),
    Text(<<"r", "a", "d", "a", "r">>), Text(StrPie), Text(StrDoughnut), Text(StrScatter) }
XAxes == { JUndef, Text(<<"r", "e", "g", "i", "o", "n">>), Text(<<"n", "o", "s", "u", "c", "h">>) }
YAxes == { JUndef, Text(<<"a", "m", "o", "u", "n", "t">>) }
GroupBys == { JUndef, Text(<<"t", "e", "a", "m">>) }
ChartLimits == { JUndef, Text(<<"2">>) }

ChartQueries ==
  { [endpoint |-> "chart-data", fault |-> "none", sheet |-> JUndef, chartType |-> t, xAxis |-> x,
     yAxis |-> y, groupBy |-> g, limit |-> l, page |-> JUndef] :
      t \in ChartTypes, x \in XAxes, y \in YAxes, g \in GroupBys, l \in ChartLimits }

\* The handler reads the store and changes nothing, so its response to a request
\* is the same wherever in a run the request comes: one request per run is taken.
ChartData ==
  /\ query = NoQuery
  /\ \E q \in ChartQueries :
       /\ query' = q
       /\ res' = ChartDataResponse(file, user, excelData, q)
  /\ UNCHANGED <<file, user, worksheet, excelData, fetched, storageUsed, docs, pending, files, accounts, clock, history>>

\* Every sheet is stored and asked for by its owner; the other requesters, the
\* missing file and the sheet not yet parsed are tried on the short sheets.
ChartInit ==
  /\ worksheet \in ChartSheets(MaxRows)
  /\ \/ /\ file = "present"
        /\ user = "owner"
        /\ excelData = NewExcelData(processExcelFile(worksheet), "owner", FirstSheet)
     \/ /\ Len(worksheet) <= MaxAccessRows
        /\ file \in {"present", "absent"}
        /\ user \in {"owner", "admin", "other"}
        /\ excelData \in {NoDoc, NewExcelData(processExcelFile(worksheet), "owner", FirstSheet)}
  /\ query = NoQuery
  /\ res = NoRes
  /\ fetched = NotFetching
  /\ Serial

ChartNext == ChartData

SpecChart == ChartInit /\ [][ChartNext]_vars

(***************************************************************************)
(* Paged requests on sheets of one column.  A first request is any query;  *)
(* a request for page 1 that succeeds starts a client that asks for the    *)
(* pages 2, 3, ... of the same endpoint under the same limit, up to the    *)
(* totalPages it was told, and keeps the rows it receives.                 *)
(***************************************************************************)
MaxPageRows == 4
MaxPage == 5
MaxLimit == 3

HdrId == <<"I", "d">>

PageSheets ==
  UNION { { [r \in 1..n |-> << [k |-> HdrId, v |-> JNum(ids[r])] >>] : ids \in [1..n -> {1, 2}] }
          : n \in 0..MaxPageRows }

Numeral(n) == Text(NatToString(n))

PageParams == {JUndef, Text(<<"x">>)} \cup {Numeral(p) : p \in 0..MaxPage}
LimitParams == {JUndef, Text(<<"-", "1">>)} \cup {Numeral(l) : l \in 0..MaxLimit}
SheetParams == {JUndef, Text(<<"O", "t", "h", "e", "r">>)}

PageQueries(endpoint) ==
  { [Query(endpoint) EXCEPT !.page = p, !.limit = l, !.sheet = s] :
      p \in PageParams, l \in LimitParams, s \in SheetParams }

\* The request is the first of the run, or the client's next page.
Continues(q) ==
  /\ fetched.endpoint = q.endpoint
  /\ q.sheet = JUndef
  /\ q.limit = fetched.limit
  /\ q.page = Numeral(fetched.next)
  /\ fetched.next <= fetched.totalPages
  /\ fetched.next <= MaxPage

Admissible(q) ==
  \/ fetched = NotFetching /\ query = NoQuery
  \/ Continues(q)

Collect(q, response) ==
  IF response.status # 200 THEN fetched
  ELSE IF fetched.endpoint = "none"
  THEN IF q.page = Numeral(1) /\ q.sheet = JUndef
       THEN [endpoint |-> q.endpoint, limit |-> q.limit, next |-> 2,
             rows |-> response.body.data,
             totalPages |-> response.body.pagination.totalPages]
       ELSE fetched
  ELSE [fetched EXCEPT !.next = @ + 1,
                       !.rows = @ \o response.body.data,
                       !.totalPages = response.body.pagination.totalPages]

Answer(q, response) ==
  /\ query' = q
  /\ res' = response
  /\ fetched' = Collect(q, response)
  /\ UNCHANGED <<file, user, worksheet, excelData, storageUsed, docs, pending, files, accounts, clock, history>>

GetData ==
  \E q \in PageQueries("data") :
    Admissible(q) /\ Answer(q, DataResponse(file, user, excelData, q))

Analyze ==
  \E q \in PageQueries("analyze") :
    Admissible(q) /\ Answer(q, AnalyzeResponse(file, user, worksheet, q))

TableData ==
  \E q \in PageQueries("table-data") :
    Admissible(q) /\ Answer(q, TableDataResponse(file, user, worksheet, q))

PageInit ==
  /\ worksheet \in PageSheets
  /\ \/ /\ file = "present"
        /\ user = "owner"
        /\ excelData = NewExcelData(processExcelFile(worksheet), "owner", FirstSheet)
     \/ /\ Len(worksheet) <= MaxAccessRows
        /\ file \in {"present", "absent", "missing"}
        /\ user \in {"owner", "admin", "other"}
        /\ excelData \in {NoDoc, NewExcelData(processExcelFile(worksheet), "owner", FirstSheet)}
  /\ query = NoQuery
  /\ res = NoRes
  /\ fetched = NotFetching
  /\ Serial

PageNext == GetData \/ Analyze \/ TableData

SpecPage == PageInit /\ [][PageNext]_vars

(***************************************************************************)
(* Properties of the sheet processor, checked under SpecProc on the stored *)
(* document of every sheet of ProcInit.                                   *)
(***************************************************************************)
RECURSIVE SumSeq(_)
SumSeq(ns) == IF ns = <<>> THEN 0 ELSE ns[1] + SumSeq(Tail(ns))

ColumnNames(doc) == [i \in DOMAIN doc.columns |-> doc.columns[i].name]

NamesBefore(names, i) == {names[j] : j \in 1..(i - 1)}

Suffixed(cleanName, k) == cleanName \o <<"_">> \o NatToString(k)

\* The name the first-seen rule gives column i: its cleaned name when no earlier
\* column holds it, else the cleaned name with the least free suffix.
FirstSeenName(cleanName, taken) ==
  IF cleanName \notin taken THEN cleanName
  ELSE Suffixed(cleanName,
                CHOOSE k \in 1..(Cardinality(taken) + 1) :
                  /\ Suffixed(cleanName, k) \notin taken
                  /\ \A m \in 1..(k - 1) : Suffixed(cleanName, m) \in taken)

\* C2: the column names of a processed sheet are pairwise distinct; the first
\* header that cleans to a name keeps it and each later colliding header gets
\* that name with suffix _k for the least k >= 1 not yet assigned.
C2_NamesDistinctFirstSeen ==
  excelData.exists =>
    /\ \A i, j \in DOMAIN excelData.columns :
         i # j => excelData.columns[i].name # excelData.columns[j].name
    /\ \A i \in DOMAIN excelData.columns :
         excelData.columns[i].name =
           FirstSeenName(cleanColumnName(excelData.columns[i].originalName),
                         NamesBefore(ColumnNames(excelData), i))

SummaryRowCount(doc) == ObjGet(doc.summary, KeyRowCount)

\* C3 as stated: for every processed sheet, the empty one included, the rowCount
\* of the summary equals data.length and the top-level rowCount.
C3_SummaryRowCountAlways ==
  excelData.exists =>
    /\ SummaryRowCount(excelData) = JNum(Len(excelData.data))
    /\ excelData.rowCount = Len(excelData.data)

\* C3 as amended: the top-level rowCount always equals data.length, the number
\* of rows of the sheet; the summary reports that same rowCount when the sheet has
\* at least one data row, and has no rowCount when the sheet has none.
C3_RowCountAgrees ==
  excelData.exists =>
    /\ excelData.rowCount = Len(excelData.data)
    /\ Len(excelData.data) = Len(worksheet)
    /\ Len(worksheet) > 0 => SummaryRowCount(excelData) = JNum(Len(excelData.data))
    /\ Len(worksheet) = 0 => SummaryRowCount(excelData) = JUndef

\* C3 witness: a sheet with two data rows has been parsed and stored.
C3_Witness ==
  /\ excelData.exists
  /\ query.endpoint = "parse"
  /\ res.status = 200
  /\ Len(worksheet) = 2
  /\ SummaryRowCount(excelData) = JNum(2)

(***************************************************************************)
(* Requests of the owner, an admin and another user to every endpoint of   *)
(* one file, one after another; a request names no sheet or a sheet that   *)
(* is not in the workbook.                                                 *)
(***************************************************************************)
MaxApiRows == 1

Requesters == {"owner", "admin", "other"}

\* Sheets of one column of numbers and text.
ApiCells == {JNum(10), JStr(<<"a", "b", "c">>)}

ApiSheets(maxRows) ==
  UNION { { [r \in 1..n |-> << [k |-> HdrValue, v |-> cells[r]] >>] : cells \in [1..n -> ApiCells] }
          : n \in 0..maxRows }

SheetQueries(endpoint) == { [Query(endpoint) EXCEPT !.sheet = s] : s \in SheetParams }

Respond(u, q, response) ==
  /\ user' = u
  /\ query' = q
  /\ res' = response
  /\ UNCHANGED <<file, worksheet, excelData, fetched, storageUsed, docs, pending, files, accounts, clock, history>>

GetFile == \E u \in Requesters : Respond(u, Query("get"), GetFileResponse(file, u))

DeleteEffect(out) ==
  /\ res' = out.res
  /\ file' = out.file
  /\ excelData' = out.excelData
  /\ storageUsed' = out.storageUsed

DeleteFile ==
  \E u \in Requesters :
    /\ DeleteEffect(DeleteOutcome(file, u, excelData, storageUsed))
    /\ user' = u
    /\ query' = Query("delete")
    /\ UNCHANGED <<worksheet, fetched, docs, pending, files, accounts, clock, history>>

DataRequest ==
  \E u \in Requesters, q \in SheetQueries("data") :
    Respond(u, q, DataResponse(file, u, excelData, q))

AnalyzeRequest ==
  \E u \in Requesters, q \in SheetQueries("analyze") :
    Respond(u, q, AnalyzeResponse(file, u, worksheet, q))

TableDataRequest ==
  \E u \in Requesters, q \in SheetQueries("table-data") :
    Respond(u, q, TableDataResponse(file, u, worksheet, q))

ChartMetadataRequest ==
  \E u \in Requesters, q \in SheetQueries("chart-metadata") :
    Respond(u, q, ChartMetadataResponse(file, u, excelData, q))

ChartDataRequest ==
  \E u \in Requesters, q \in SheetQueries("chart-data"),
     x \in {JUndef, Text(<<"v", "a", "l", "u", "e">>)} :
    Respond(u, [q EXCEPT !.xAxis = x], ChartDataResponse(file, u, excelData, [q EXCEPT !.xAxis = x]))

DownloadDataRequest ==
  \E u \in Requesters, q \in SheetQueries("download-data") :
    Respond(u, q, DownloadDataResponse(file, u, worksheet, q))

PreviewRequest ==
  \E u \in Requesters, q \in SheetQueries("preview") :
    Respond(u, q, PreviewResponse(file, u, worksheet, q))

ApiInit ==
  /\ file \in {"present", "missing"}
  /\ user = "owner"
  /\ worksheet \in ApiSheets(MaxApiRows)
  /\ excelData = NoDoc
  /\ query = NoQuery
  /\ res = NoRes
  /\ fetched = NotFetching
  /\ Serial

ApiNext ==
  \/ GetFile
  \/ DeleteFile
  \/ ParseRequest
  \/ DataRequest
  \/ AnalyzeRequest
  \/ TableDataRequest
  \/ ChartMetadataRequest
  \/ ChartDataRequest
  \/ DownloadDataRequest
  \/ PreviewRequest

SpecApi == ApiInit /\ [][ApiNext]_vars

(***************************************************************************)
(* Parse requests that interleave. A request runs in two steps, one up to  *)
(* the answer of ExcelData.findOne and one from there to the answer of     *)
(* excelData.save(): the handler's awaits are where another request can    *)
(* run. The requests are for one of two files with the same workbook.      *)
(***************************************************************************)
MaxRequests == 2

FileIds == {1, 2}

IdleRequest == [pc |-> "idle", file |-> 0, user |-> "none", res |-> NoRes]

\* A document of the collection: its key and the document.
Entry(f, doc) == [file |-> f, sheetName |-> doc.sheetName, document |-> doc]

\* ExcelData.findOne({file, sheetName}) finds a document.
Found(collection, f, sheetName) ==
  \E i \in DOMAIN collection :
    collection[i].file = f /\ collection[i].sheetName = sheetName

FoundDocument(collection, f, sheetName) ==
  collection[CHOOSE i \in DOMAIN collection :
               collection[i].file = f /\ collection[i].sheetName = sheetName].document

\* A save into a collection without the unique index.
InsertAnyway(collection, f, doc) ==
  [saved |-> TRUE, collection |-> Append(collection, Entry(f, doc))]

\* excelData.save() into the collection with the unique index on (file, sheetName):
\* the insert is rejected when the key is there.
Insert(collection, f, doc) ==
  IF Found(collection, f, doc.sheetName) THEN [saved |-> FALSE, collection |-> collection]
  ELSE [saved |-> TRUE, collection |-> Append(collection, Entry(f, doc))]

\* The handler up to the answer of findOne.
CheckExisting(collection, f, u) ==
  IF NotAuthorized(u)
  THEN [pc |-> "done", file |-> f, user |-> u,
        res |-> Fail(403, "Not authorized to access this file")]
  ELSE IF Found(collection, f, FirstSheet)
  THEN [pc |-> "done", file |-> f, user |-> u,
        res |-> [status |-> 200, error |-> "", message |-> "Sheet already processed",
                 body |-> FoundDocument(collection, f, FirstSheet)]]
  ELSE [pc |-> "processing", file |-> f, user |-> u, res |-> NoRes]

\* The handler from processExcelFile to its answer.
Saved(request, doc, inserted) ==
  [request EXCEPT !.pc = "done",
                  !.res = IF inserted.saved THEN Ok(doc)
                          ELSE ServerError(ThrownBy("excelData.save"))]

StartParse(r) ==
  /\ pending[r].pc = "idle"
  /\ \E f \in FileIds, u \in Requesters :
       pending' = [pending EXCEPT ![r] = CheckExisting(docs, f, u)]
  /\ UNCHANGED <<file, user, worksheet, excelData, query, res, fetched, storageUsed, docs, files, accounts, clock, history>>

SaveEffect(r, doc, inserted) ==
  /\ docs' = inserted.collection
  /\ pending' = [pending EXCEPT ![r] = Saved(pending[r], doc, inserted)]

SaveParsed(r) ==
  /\ pending[r].pc = "processing"
  /\ SaveEffect(r, NewExcelData(processExcelFile(worksheet), pending[r].user, FirstSheet),
                Insert(docs, pending[r].file,
                       NewExcelData(processExcelFile(worksheet), pending[r].user, FirstSheet)))
  /\ UNCHANGED <<file, user, worksheet, excelData, query, res, fetched, storageUsed, files, accounts, clock, history>>

RaceInit ==
  /\ file = "present"
  /\ user = "owner"
  /\ worksheet \in ApiSheets(1)
  /\ excelData = NoDoc
  /\ query = NoQuery
  /\ res = NoRes
  /\ fetched = NotFetching
  /\ storageUsed = FileSize
  /\ docs = <<>>
  /\ pending = [r \in 1..MaxRequests |-> IdleRequest]
  /\ files = <<>> /\ accounts = <<>> /\ clock = 0 /\ history = <<>>

RaceNext == \E r \in 1..MaxRequests : StartParse(r) \/ SaveParsed(r)

SpecRace == RaceInit /\ [][RaceNext]_vars

(***************************************************************************)
(* Properties of the name of a column, checked under SpecName on the one   *)
(* column of the stored document.                                          *)
(***************************************************************************)
Header == worksheet[1][1].k

NameStored == excelData.exists /\ Len(excelData.columns) = 1

StoredName == excelData.columns[1].name

UpperCase ==
  <<"A", "B", "C", "D", "E", "F", "G", "H", "I", "J", "K", "L", "M",
    "N", "O", "P", "Q", "R", "S", "T", "U", "V", "W", "X", "Y", "Z">>

LowerCase ==
  <<"a", "b", "c", "d", "e", "f", "g", "h", "i", "j", "k", "l", "m",
    "n", "o", "p", "q", "r", "s", "t", "u", "v", "w", "x", "y", "z">>

\* What the character at position i of the header contributes: an underscore
\* for a dot and for the first whitespace of a run, its lowercase form for a
\* letter, itself for a digit or an underscore, nothing otherwise.
Contribution(h, i) ==
  IF IsSpace(h[i]) THEN (IF i > 1 /\ IsSpace(h[i - 1]) THEN <<>> ELSE <<"_">>)
  ELSE IF h[i] = "." THEN <<"_">>
  ELSE IF \E j \in DOMAIN UpperCase : UpperCase[j] = h[i]
       THEN <<LowerCase[CHOOSE j \in DOMAIN UpperCase : UpperCase[j] = h[i]]>>
  ELSE IF IsLower(h[i]) \/ IsDigit(h[i]) \/ h[i] = "_" THEN <<h[i]>>
  ELSE <<>>

RECURSIVE Sanitized(_, _)
Sanitized(h, n) == IF n = 0 THEN <<>> ELSE Sanitized(h, n - 1) \o Contribution(h, n)

ExpectedName(sanitized) ==
  IF sanitized = <<>> THEN <<"c", "o", "l", "u", "m", "n">>
  ELSE IF IsDigit(sanitized[1]) \/ sanitized[1] = "_" THEN <<"c", "o", "l", "_">> \o sanitized
  ELSE sanitized

\* C13: the clean name of a header is the header in lowercase with each run of
\* whitespace and each dot turned into one underscore and every other character
\* outside letters, digits and the underscore removed, prefixed with col_ when
\* that starts with a digit or an underscore, and the word column when it is
\* empty; so it is never empty, has only characters of a-z, 0-9 and _, and
\* starts with a letter.
C13_CleanNameSanitized ==
  NameStored =>
    /\ StoredName = ExpectedName(Sanitized(Header, Len(Header)))
    /\ StoredName = cleanColumnName(Header)
    /\ StoredName # <<>>
    /\ \A i \in DOMAIN StoredName :
         IsLower(StoredName[i]) \/ IsDigit(StoredName[i]) \/ StoredName[i] = "_"
    /\ IsLower(StoredName[1])

\* C13 witness: a stored column whose header is "Sales Amount (USD)" is named
\* sales_amount_usd.
C13_Witness ==
  /\ NameStored
  /\ Header = SalesAmountUsd
  /\ StoredName = <<"s", "a", "l", "e", "s", "_", "a", "m", "o", "u", "n", "t", "_", "u", "s", "d">>

(***************************************************************************)
(* Properties of a column's type and statistics, checked under SpecColumn  *)
(* on the one column of the stored document.                               *)
(***************************************************************************)
\* The values of the sheet's column, in row order.
SheetValues == [r \in DOMAIN worksheet |-> worksheet[r][1].v]

ColumnStored == excelData.exists /\ Len(excelData.columns) = 1

Tally(type) == Cardinality({i \in DOMAIN SheetValues : getDataType(SheetValues[i]) = type})

FirstOccurrence(type) ==
  CHOOSE i \in DOMAIN SheetValues :
    /\ getDataType(SheetValues[i]) = type
    /\ \A j \in 1..(i - 1) : getDataType(SheetValues[j]) # type

TypesSeen == {getDataType(SheetValues[i]) : i \in DOMAIN SheetValues}

InferredType == excelData.columns[1].dataType

\* C11: for a non-empty value sequence inferDataType returns a type of the tally
\* (null and undefined counted as null) whose frequency no other type exceeds,
\* and among the types of maximal frequency the one that occurs first in the
\* sequence; for the empty sequence it returns null.
C11_MostFrequentTypeFirstSeen ==
  /\ inferDataType(<<>>) = TypeNull
  /\ ColumnStored =>
        /\ InferredType \in TypesSeen
        /\ \A t \in TypesSeen : Tally(t) <= Tally(InferredType)
        /\ \A t \in TypesSeen \ {InferredType} :
             Tally(t) = Tally(InferredType) => FirstOccurrence(InferredType) < FirstOccurrence(t)

\* C11 witness: four values of two types tied at two values each, the other type
\* the first to reach two; the type of the first value is the inferred one.
C11_Witness ==
  /\ ColumnStored
  /\ Len(SheetValues) = 4
  /\ \E t \in TypesSeen \ {InferredType} : Tally(t) = 2 /\ Tally(InferredType) = 2
  /\ getDataType(SheetValues[1]) = InferredType
  /\ getDataType(SheetValues[2]) # InferredType
  /\ getDataType(SheetValues[3]) # InferredType

NonNullValues == {SheetValues[i] : i \in {j \in DOMAIN SheetValues : SheetValues[j].k # "null"}}
NonNullCount == Cardinality({j \in DOMAIN SheetValues : SheetValues[j].k # "null"})

NumbersAndNulls == \A i \in DOMAIN SheetValues : SheetValues[i].k \in {"number", "null"}

ValueSum == SumSeq([i \in DOMAIN SheetValues |->
                      IF SheetValues[i].k = "number" THEN SheetValues[i].n ELSE 0])

\* mean * nonNullCount = sum, the mean being an integer or a fraction n / s.
IsQuotient(mean, sum, count) ==
  \/ mean.k = "number" /\ mean.n * count = sum
  \/ mean.k = "fraction" /\ mean.n * count = sum * DigitsValue(mean.s)

ColumnStatistics == excelData.columns[1].statistics

\* C12: for a column of inferred type number whose values are numbers and nulls,
\* count is the number of values, nullCount the number of nulls, uniqueCount the
\* number of distinct non-null values, min and max the least and the greatest
\* non-null value, sum their sum and mean sum / nonNullCount; a column of nulls
\* only has count and nullCount and nothing else.
C12_NumberStatistics ==
  (ColumnStored /\ NumbersAndNulls) =>
    /\ ColumnStatistics.count = Len(SheetValues)
    /\ ColumnStatistics.nullCount = Len(SheetValues) - NonNullCount
    /\ NonNullCount = 0 => DOMAIN ColumnStatistics = {"count", "nullCount"}
    /\ (NonNullCount > 0 /\ InferredType = TypeNumber) =>
         /\ ColumnStatistics.uniqueCount = Cardinality(NonNullValues)
         /\ ColumnStatistics.min \in NonNullValues
         /\ \A v \in NonNullValues : ColumnStatistics.min.n <= v.n /\ v.n <= ColumnStatistics.max.n
         /\ ColumnStatistics.max \in NonNullValues
         /\ ColumnStatistics.sum = JNum(ValueSum)
         /\ IsQuotient(ColumnStatistics.mean, ValueSum, NonNullCount)

\* C12 witness: the values 10, 20, null, 30 give count 4, nullCount 1,
\* uniqueCount 3, min 10, max 30, sum 60, mean 20.
C12_Witness ==
  /\ ColumnStored
  /\ SheetValues = <<JNum(10), JNum(20), JNull, JNum(30)>>
  /\ InferredType = TypeNumber
  /\ ColumnStatistics.count = 4
  /\ ColumnStatistics.nullCount = 1
  /\ ColumnStatistics.uniqueCount = 3
  /\ ColumnStatistics.min = JNum(10)
  /\ ColumnStatistics.max = JNum(30)
  /\ ColumnStatistics.sum = JNum(60)
  /\ ColumnStatistics.mean = JNum(20)

(***************************************************************************)
(* Properties of the paged endpoints, checked under SpecPage.              *)
(***************************************************************************)
\* The client collects pages under a limit that is a positive integer.
Collecting ==
  /\ fetched.endpoint # "none"
  /\ fetched.limit.k = "string"
  /\ fetched.limit.s # <<>>
  /\ AllDigits(fetched.limit.s)
  /\ DigitsValue(fetched.limit.s) > 0

CollectLimit == DigitsValue(fetched.limit.s)

\* The row sequence the endpoint pages: the stored data for data, the rows of the
\* sheet for analyze and table-data.
PagedRows == IF fetched.endpoint = "data" THEN excelData.data ELSE worksheet

LastPage == (Len(PagedRows) + CollectLimit - 1) \div CollectLimit

\* C1: for a row sequence of any length and a positive integer limit, the pages
\* 1, 2, ... of data, analyze and table-data, concatenated in page order, are a
\* prefix of the sequence: after k pages the first min(k * limit, totalItems)
\* rows; the endpoint reports ceil(totalItems / limit) pages, and after the last
\* of them the concatenation is the sequence itself, no row dropped, duplicated
\* or reordered.
C1_PagesReconstructRows ==
  Collecting =>
    /\ fetched.totalPages = LastPage
    /\ fetched.rows = SubSeq(PagedRows, 1, Min((fetched.next - 1) * CollectLimit, Len(PagedRows)))
    /\ fetched.next > LastPage => fetched.rows = PagedRows

\* C1 witness: four rows collected from table-data in two pages of limit 3, the
\* second page holding the one row left.
C1_Witness ==
  /\ Collecting
  /\ fetched.endpoint = "table-data"
  /\ CollectLimit = 3
  /\ Len(worksheet) = 4
  /\ fetched.next = 3
  /\ Len(res.body.data) = 1
  /\ fetched.rows = worksheet

\* One of the three paged endpoints has answered with rows.
PageAnswered ==
  /\ query.endpoint \in {"data", "analyze", "table-data"}
  /\ res.status = 200

\* The value a page or limit parameter stands for: what it parses to when that
\* is a positive integer, the default otherwise.
Effective(param, default) ==
  IF ParseInt(param).k = "number" /\ ParseInt(param).n >= 1 THEN ParseInt(param).n ELSE default

EffectivePage == Effective(query.page, 1)

EffectiveLimit ==
  Effective(query.limit, IF query.endpoint = "table-data" THEN 10 ELSE 100)

AnsweredRows == IF query.endpoint = "data" THEN excelData.data ELSE worksheet

\* C14: in data, analyze and table-data a page or limit that is absent or does
\* not parse to a positive integer is replaced by its default (page 1, limit 100
\* for data and analyze and 10 for table-data), so the page and the limit used
\* are at least 1 and the rows returned are the slice from (page - 1) * limit to
\* page * limit of the row sequence, clamped to its length.
C14_PageLimitDefaulted ==
  PageAnswered =>
    /\ res.body.pagination.page = EffectivePage
    /\ res.body.pagination.limit = EffectiveLimit
    /\ res.body.pagination.page >= 1
    /\ res.body.pagination.limit >= 1
    /\ res.body.data =
         SubSeq(AnsweredRows,
                Min((EffectivePage - 1) * EffectiveLimit, Len(AnsweredRows)) + 1,
                Min(EffectivePage * EffectiveLimit, Len(AnsweredRows)))

(***************************************************************************)
(* Properties of GET /:id/chart-data, checked under SpecChart.             *)
(***************************************************************************)
Present(q) == q.k = "string" /\ q.s # <<>>

ChartAnswered == query.endpoint = "chart-data"

\* The caller may access the sheet and the sheet has been processed.
ChartAccessible == file = "present" /\ user \in {"owner", "admin"} /\ excelData.exists

ChartSucceeded == ChartAnswered /\ res.status = 200

RequestedType == IF Present(query.chartType) THEN query.chartType.s ELSE StrBar

IsPieRequest == RequestedType \in {StrPie, StrDoughnut}
IsScatterRequest == RequestedType = StrScatter
IsBarRequest == ~IsPieRequest /\ ~IsScatterRequest

\* The limit of the request: the integer of the query, 1000 when it is absent.
RequestedLimit == IF Present(query.limit) THEN DigitsValue(query.limit.s) ELSE 1000

\* The first min(limit, n) rows of the stored data.
FirstRows == SubSeq(excelData.data, 1, Min(RequestedLimit, Len(excelData.data)))

XOf(row) == ObjGet(row, query.xAxis.s)
YOf(row) == ObjGet(row, query.yAxis.s)
GOf(row) == ObjGet(row, query.groupBy.s)

\* yAxis coerced to a number, a non-numeric or null value counting 0.
NumberOrZero(v) == IF ToNumber(v).k = "number" THEN ToNumber(v).n ELSE 0

Labels == res.body.chartData.labels
Datasets == res.body.chartData.datasets

\* The value the claim gives a pie label: the sum of yAxis over the first rows
\* whose xAxis is the label when yAxis is given, else the number of those rows.
PieValue(label) ==
  SumSeq([i \in DOMAIN FirstRows |->
            IF ~IsNullish(XOf(FirstRows[i])) /\ JsString(XOf(FirstRows[i])) = label.s
            THEN (IF Present(query.yAxis) THEN NumberOrZero(YOf(FirstRows[i])) ELSE 1)
            ELSE 0])

\* C4: for pie and doughnut the value of each label is the sum of the yAxis values
\* (a 0 counting 0, a non-numeric or null value counting 0) of the first rows whose
\* xAxis is that label when yAxis is given, else the number of those rows; rows
\* with a null xAxis count for no label.
C4_PieSumsYAxis ==
  (ChartSucceeded /\ IsPieRequest) =>
    /\ Len(Datasets[1].data) = Len(Labels)
    /\ \A i \in DOMAIN Labels : Datasets[1].data[i] = JNum(PieValue(Labels[i]))

\* The non-null xAxis values of the first rows, each once, in order of first
\* appearance.
NonNull(v) == ~IsNullish(v)
FirstAppearance == Distinct(SelectSeq([i \in DOMAIN FirstRows |-> XOf(FirstRows[i])], NonNull))

StringForms(values) == [i \in DOMAIN values |-> JsString(values[i])]

\* The value the handler's own increments give a pie label.
PieValueAsCoded(label) ==
  SumSeq([i \in DOMAIN FirstRows |->
            IF ~IsNullish(XOf(FirstRows[i])) /\ JsString(XOf(FirstRows[i])) = label.s
            THEN PieIncrement(FirstRows[i], query.yAxis).n
            ELSE 0])

\* C5: for pie and doughnut the labels are the distinct non-null xAxis values in
\* order of first appearance, whatever the values (integers included), and
\* data[i] is the value of labels[i].
C5_PieFirstAppearanceOrder ==
  (ChartSucceeded /\ IsPieRequest) =>
    /\ StringForms(Labels) = StringForms(FirstAppearance)
    /\ \A i \in DOMAIN Labels : Datasets[1].data[i] = JNum(PieValueAsCoded(Labels[i]))

\* The natural ordering of two labels: numeric between numbers, by code units
\* between texts; a number and a text are not ordered by the claim.
IsNumeral(label) == label.s # <<>> /\ AllDigits(label.s)
NaturalLeq(a, b) ==
  IF IsNumeral(a) /\ IsNumeral(b) THEN DigitsValue(a.s) <= DigitsValue(b.s)
  ELSE IF ~IsNumeral(a) /\ ~IsNumeral(b) THEN ~StrLess(b.s, a.s)
  ELSE TRUE

\* C6: for bar, line, area and unrecognized chart types without groupBy the labels
\* are the distinct non-null xAxis values in ascending natural order: numeric for
\* numbers (9 before 10), lexicographic for strings, with or without yAxis.
C6_LabelsNaturalOrder ==
  (ChartSucceeded /\ IsBarRequest /\ ~Present(query.groupBy)) =>
    /\ {Labels[i].s : i \in DOMAIN Labels}
         = {JsString(FirstAppearance[i]) : i \in DOMAIN FirstAppearance}
    /\ Len(Labels) = Len(FirstAppearance)
    /\ \A i, j \in DOMAIN Labels : i < j => NaturalLeq(Labels[i], Labels[j])

GroupValues == {GOf(FirstRows[i]) : i \in DOMAIN FirstRows}
XValues == {XOf(FirstRows[i]) : i \in DOMAIN FirstRows}

\* The aggregate of the first rows of one group and one xAxis value: the sum of
\* their increments (the yAxis value, or 1 for a count).
GroupAggregate(groupLabel, xValue) ==
  SumSeq([i \in DOMAIN FirstRows |->
            IF JsString(GOf(FirstRows[i])) = groupLabel.s /\ XOf(FirstRows[i]) = xValue
            THEN GroupIncrement(FirstRows[i], query.yAxis).n
            ELSE 0])

IsGroupedRequest == ChartSucceeded /\ IsBarRequest /\ Present(query.groupBy)

C9_UnknownAxisRejected ==
  ChartSucceeded =>
    \E c \in DOMAIN excelData.columns : excelData.columns[c].name = query.xAxis.s

\* C10: chart-data formats exactly the first min(limit, n) rows of the stored data
\* in stored order (limit 1000 when the query gives none), so later rows never
\* influence the series, and dataPoints is min(limit, n).
C10_LimitTruncatesBeforeFormat ==
  ChartSucceeded =>
    /\ res.body.dataPoints = Min(RequestedLimit, Len(excelData.data))
    /\ res.body.chartData = FormatChart(query, RequestedType, FirstRows).body.chartData

\* C10 witness: a sheet of three rows asked for with limit 2: two data points.
C10_Witness ==
  /\ ChartSucceeded
  /\ query.limit = Text(<<"2">>)
  /\ Len(excelData.data) = 3
  /\ res.body.dataPoints = 2
  /\ IsBarRequest
  /\ Len(Labels) > 0

(***************************************************************************)
(* Properties of the endpoints of a file, checked under SpecApi.           *)
(***************************************************************************)
\* The last request named a sheet that the workbook does not have.
UnknownSheetRequested ==
  /\ query.endpoint \in {"analyze", "table-data", "download-data", "preview", "parse"}
  /\ ~IncludesSheet(SheetName(query))

\* The workbook could be read: the response is not the error of XLSX.readFile.
WorkbookRead == ~(res.status = 500 /\ res.detail = ThrownBy("XLSX.readFile"))

\* C15: a request that names a sheet the workbook does not have is answered with
\* a 4xx status, never a 5xx, in analyze, table-data, download-data, preview and
\* parse.
C15_UnknownSheetClientError ==
  (UnknownSheetRequested /\ WorkbookRead) => res.status \in 400..499

\* The step is a parse request that passes the checks of the file, the
\* requester and the disk.
ParseAdmitted ==
  /\ query'.endpoint = "parse"
  /\ file = "present"
  /\ ~NotAuthorized(user')

AlreadyProcessed == excelData.exists /\ excelData.sheetName = SheetName(query')

\* C17: of parse requests for one file and sheet that run one after another, the
\* first that succeeds stores the processed document, and every later one
\* answers success with that stored document and 'Sheet already processed',
\* whatever would go wrong in processing, and leaves the stored document as it is.
C17_LaterParsesAnswerStored ==
  [][ParseAdmitted =>
        IF AlreadyProcessed
        THEN /\ res' = [status |-> 200, error |-> "", message |-> "Sheet already processed",
                        body |-> excelData]
             /\ excelData' = excelData
        ELSE res'.status = 200 =>
               /\ excelData' = NewExcelData(processExcelFile(worksheet), user', SheetName(query'))
               /\ res'.body = excelData'
               /\ res'.message = ""]_vars

\* C17 witness: an admin's parse request, on which the workbook could not even
\* be read, is answered with the document the owner's request stored.
C17_Witness ==
  /\ query.endpoint = "parse"
  /\ query.fault = "read"
  /\ user = "admin"
  /\ res.status = 200
  /\ res.message = "Sheet already processed"
  /\ res.body = excelData
  /\ excelData.user = "owner"

\* The step is a parse request on which processing is reached and fails: the
\* file is not on disk, the sheet is not in the workbook, the workbook cannot be
\* read, the statistics throw or the save is rejected.
ProcessingFails ==
  /\ query'.endpoint = "parse"
  /\ file # "absent"
  /\ ~NotAuthorized(user')
  /\ \/ file = "missing"
     \/ /\ ~AlreadyProcessed
        /\ ~IncludesSheet(SheetName(query')) \/ query'.fault # "none"

CompleteRun(doc) ==
  /\ doc.columns = processExcelFile(worksheet).columns
  /\ doc.data = processExcelFile(worksheet).data
  /\ doc.rowCount = processExcelFile(worksheet).rowCount
  /\ doc.summary = processExcelFile(worksheet).summary

\* C18: a parse request on which processing fails at any step is answered with a
\* failure, and a parse request answered with a failure creates and modifies no
\* document; the columns, data, rowCount and summary of a stored document all
\* come from one complete processing run of the sheet.
C18_FailedParseStoresNothing ==
  /\ [](excelData.exists => CompleteRun(excelData))
  /\ [][/\ ProcessingFails => res'.status >= 400
        /\ (query'.endpoint = "parse" /\ res'.status # 200) => excelData' = excelData]_vars

\* C18 witness: a parse request whose save is rejected is answered 500 and
\* nothing is stored.
C18_Witness ==
  /\ query.endpoint = "parse"
  /\ query.fault = "save"
  /\ file = "present"
  /\ user = "owner"
  /\ res.status = 500
  /\ ~excelData.exists

\* C19: the body of a server error of parse does not depend on the internal
\* error: it carries no message of it, so no path and no sheet name.
C19_GenericServerError ==
  (query.endpoint = "parse" /\ res.status >= 500) => res.detail = <<>>

ApiEndpoints ==
  {"get", "delete", "parse", "data", "analyze", "table-data", "chart-metadata",
   "chart-data", "download-data", "preview"}

\* C20: on every endpoint of a file, a requester who is neither the owner nor an
\* admin is answered 403 without content, and the request changes neither the
\* file record, the file on disk, the parsed data nor storageUsed.
C20_OwnershipCheckedFirst ==
  [][(query'.endpoint \in ApiEndpoints /\ file # "absent" /\ NotAuthorized(user')) =>
        /\ res'.status = 403
        /\ res'.body = <<>>
        /\ file' = file
        /\ worksheet' = worksheet
        /\ excelData' = excelData
        /\ storageUsed' = storageUsed]_vars

\* C20 witness: another user's delete request is answered 403 and the file, its
\* parsed data and the owner's storageUsed are still there.
C20_Witness ==
  /\ query.endpoint = "delete"
  /\ user = "other"
  /\ res.status = 403
  /\ file = "present"
  /\ excelData.exists
  /\ storageUsed = FileSize

(***************************************************************************)
(* Property of interleaved parse requests, checked under SpecRace.         *)
(***************************************************************************)
\* C16: however parse requests interleave, two that both find no existing data
\* before either saves included, the collection holds at most one document for
\* a file and a sheet name.
C16_OneDocumentPerSheet ==
  \A i, j \in DOMAIN docs :
    (docs[i].file = docs[j].file /\ docs[i].sheetName = docs[j].sheetName) => i = j

\* C16 witness: two requests for one file have both found no existing data; the
\* first has saved its document and the save of the second was rejected.
C16_Witness ==
  /\ pending[1].pc = "done"
  /\ pending[2].pc = "done"
  /\ pending[1].file = pending[2].file
  /\ pending[1].res.status = 200
  /\ pending[1].res.message = ""
  /\ pending[2].res.status = 500
  /\ Len(docs) = 1

(***************************************************************************)
(* Uploads and deletions that interleave. POST /upload and DELETE /:id run *)
(* in steps that end at the handler's awaits, where another request can    *)
(* run: an upload saves the file record and then adds to storageUsed; a    *)
(* deletion finds the record, then subtracts from storageUsed, then        *)
(* deletes the record.                                                     *)
(***************************************************************************)
\* The users with an account: two who upload, and an admin.
Uploaders == {"owner", "other"}
AccountIds == {"owner", "other", "admin"}

\* req.file.size of the uploads.
FileSizes == {FileSize, FileSize + 2}

NoFile == [state |-> "none", user |-> "none", fileSize |-> 0]

\* new ExcelFile({user: req.user.id, fileSize: req.file.size, ...})
NewExcelFile(u, size) == [state |-> "stored", user |-> u, fileSize |-> size]

IdleStorageRequest == [pc |-> "idle", user |-> "none", id |-> 0, file |-> NoFile]

\* The _id of a new record: one no record has had.
UnusedIds == {id \in FileIds : files[id].state = "none"}

\* User.findByIdAndUpdate(id, {$inc: {storageUsed: amount}})
IncStorageUsed(collection, id, amount) ==
  [collection EXCEPT ![id].storageUsed = @ + amount]

\* file.user.toString() !== req.user.id && req.user.role !== 'admin'
NotOwnerNorAdmin(f, u) == f.user # u /\ u # "admin"

\* POST /upload without a file: 400.
UploadNothing(r) ==
  /\ pending[r].pc = "idle"
  /\ \E u \in Uploaders :
       /\ user' = u
       /\ res' = Fail(400, "Please upload a file")
  /\ query' = Query("upload")
  /\ UNCHANGED <<file, worksheet, excelData, fetched, storageUsed, docs, pending,
                 files, accounts, clock, history>>

\* POST /upload up to the answer of excelFile.save().
SaveFile(r) ==
  /\ pending[r].pc = "idle"
  /\ UnusedIds # {}
  /\ \E u \in Uploaders, size \in FileSizes, id \in UnusedIds :
       /\ \A other \in UnusedIds : id <= other
       /\ files' = [files EXCEPT ![id] = NewExcelFile(u, size)]
       /\ pending' = [pending EXCEPT ![r] = [pc |-> "saved", user |-> u, id |-> id,
                                             file |-> NewExcelFile(u, size)]]
  /\ UNCHANGED <<file, user, worksheet, excelData, query, res, fetched, storageUsed, docs,
                 accounts, clock, history>>

\* POST /upload from there: the $inc of the uploader's storageUsed and the answer.
CountUpload(r) ==
  /\ pending[r].pc = "saved"
  /\ accounts' = IncStorageUsed(accounts, pending[r].user, pending[r].file.fileSize)
  /\ res' = [status |-> 201, error |-> "", message |-> "", body |-> pending[r].file]
  /\ user' = pending[r].user
  /\ query' = Query("upload")
  /\ pending' = [pending EXCEPT ![r] = IdleStorageRequest]
  /\ UNCHANGED <<file, worksheet, excelData, fetched, storageUsed, docs, files, clock, history>>

\* The ids a client can name: those no upload still running has created (the
\* client learns an id from the answer of the upload).
AnsweredIds == {id \in FileIds : \A r \in 1..MaxRequests :
                                   ~(pending[r].pc = "saved" /\ pending[r].id = id)}

\* DELETE /:id up to the answer of ExcelData.deleteMany: findById, the two
\* checks, the unlink.
FindFile(r) ==
  /\ pending[r].pc = "idle"
  /\ \E u \in AccountIds, id \in AnsweredIds :
       /\ user' = u
       /\ IF files[id].state # "stored"
          THEN /\ res' = Fail(404, "File not found")
               /\ query' = Query("delete")
               /\ UNCHANGED pending
          ELSE IF NotOwnerNorAdmin(files[id], u)
          THEN /\ res' = Fail(403, "Not authorized to delete this file")
               /\ query' = Query("delete")
               /\ UNCHANGED pending
          ELSE /\ pending' = [pending EXCEPT ![r] = [pc |-> "found", user |-> u, id |-> id,
                                                      file |-> files[id]]]
               /\ UNCHANGED <<res, query>>
  /\ UNCHANGED <<file, worksheet, excelData, fetched, storageUsed, docs, files, accounts,
                 clock, history>>

\* DELETE /:id from there to the answer of User.findByIdAndUpdate: the $inc of
\* -file.fileSize on the storageUsed of file.user.
SubtractSize(r) ==
  /\ pending[r].pc = "found"
  /\ accounts' = IncStorageUsed(accounts, pending[r].file.user, 0 - pending[r].file.fileSize)
  /\ pending' = [pending EXCEPT ![r].pc = "subtracted"]
  /\ UNCHANGED <<file, user, worksheet, excelData, query, res, fetched, storageUsed, docs,
                 files, clock, history>>

\* DELETE /:id from there: ExcelFile.findByIdAndDelete and the answer.
DeleteRecord(r) ==
  /\ pending[r].pc = "subtracted"
  /\ files' = [files EXCEPT ![pending[r].id].state = "deleted"]
  /\ res' = Ok(<<>>)
  /\ user' = pending[r].user
  /\ query' = Query("delete")
  /\ pending' = [pending EXCEPT ![r] = IdleStorageRequest]
  /\ UNCHANGED <<file, worksheet, excelData, fetched, storageUsed, docs, accounts, clock,
                 history>>

StorageInit ==
  /\ file = "present"
  /\ user = "owner"
  /\ worksheet = <<>>
  /\ excelData = NoDoc
  /\ query = NoQuery
  /\ res = NoRes
  /\ fetched = NotFetching
  /\ storageUsed = 0
  /\ docs = <<>>
  /\ pending = [r \in 1..MaxRequests |-> IdleStorageRequest]
  /\ files = [id \in FileIds |-> NoFile]
  /\ accounts = [u \in AccountIds |-> [storageUsed |-> 0]]
  /\ clock = 0
  /\ history = <<>>

StorageNext ==
  \E r \in 1..MaxRequests :
    \/ UploadNothing(r)
    \/ SaveFile(r)
    \/ CountUpload(r)
    \/ FindFile(r)
    \/ SubtractSize(r)
    \/ DeleteRecord(r)

SpecStorage == StorageInit /\ [][StorageNext]_vars

(***************************************************************************)
(* Property of interleaved uploads and deletions, checked under            *)
(* SpecStorage.                                                            *)
(***************************************************************************)
AllCompleted == \A r \in 1..MaxRequests : pending[r].pc = "idle"

RECURSIVE SizeOfFiles(_, _)
\* The sum of fileSize over the existing records of u among the ids.
SizeOfFiles(u, ids) ==
  IF ids = {} THEN 0
  ELSE LET id == CHOOSE i \in ids : TRUE
       IN (IF files[id].state = "stored" /\ files[id].user = u THEN files[id].fileSize
           ELSE 0) + SizeOfFiles(u, ids \ {id})

\* C21: storageUsed of a user is never negative and, once all upload and delete
\* requests have completed, equals the sum of fileSize over the ExcelFile
\* records of that user that exist.
C21_StorageMatchesFiles ==
  \A u \in AccountIds :
    /\ accounts[u].storageUsed >= 0
    /\ AllCompleted => accounts[u].storageUsed = SizeOfFiles(u, FileIds)

(***************************************************************************)
(* The User model (models/User.js) and the routes of routes/auth.js that   *)
(* read and write the password and the reset OTP.                          *)
(*                                                                         *)
(* A string that stands for a value (a password, an OTP, a token) is a     *)
(* sequence of one element; a digest is that sequence behind the name of   *)
(* the function, so that a digest of a digest differs from the digest.     *)
(***************************************************************************)
Emails == {"ann", "bob"}
UnknownEmail == "eve"

Passwords == {<<"password123">>, <<"secret456">>}
WrongPassword == <<"wrongpassword">>

Otps == {<<"111111">>, <<"222222">>}

\* bcrypt.hash(s, salt): bcrypt.compare(entered, hash) holds for the hashed
\* string only.
BcryptHash(s) == <<"bcrypt">> \o s

\* crypto.createHash('sha256').update(s).digest('hex')
Sha256(s) == <<"sha256">> \o s

\* A field that is undefined.
Unset == <<>>
NoDate == [set |-> FALSE, at |-> 0]
DateAt(t) == [set |-> TRUE, at |-> t]

\* date > Date.now(): undefined compares false.
After(date, now) == date.set /\ date.at > now

\* UserSchema.pre('save') on a document whose password has been assigned: the
\* password is stored hashed. (On a document loaded without its password the
\* hook calls next() and the save goes on with the fields as they are.)
PreSavePassword(account) == [account EXCEPT !.password = BcryptHash(@)]

\* User.create({password, ...}): the stored document.
CreateUser(password, isActive, now) ==
  PreSavePassword([isActive |-> isActive,
                   password |-> password,
                   lastLogin |-> now,
                   resetPasswordOTP |-> Unset,
                   resetPasswordOTPExpire |-> NoDate,
                   resetPasswordToken |-> Unset,
                   resetPasswordExpire |-> NoDate])

\* matchPassword: bcrypt.compare(enteredPassword, this.password)
matchPassword(account, enteredPassword) == account.password = BcryptHash(enteredPassword)

\* An update of lastLogin through save() on the document loaded with its
\* password, the save hook hashing the stored hash again.
updateLastLoginBySave(collection, e, now) ==
  [collection EXCEPT ![e] = PreSavePassword([@ EXCEPT !.lastLogin = now])]

\* updateLastLogin: findByIdAndUpdate(this._id, {$set: {lastLogin: Date.now()}})
updateLastLogin(collection, e, now) ==
  [collection EXCEPT ![e].lastLogin = now]

TwoMinutes == 2 * 60 * 1000
TenMinutes == 10 * 60 * 1000

\* generateResetPasswordOTP: the document with the hashed OTP and its expiry.
generateResetPasswordOTP(account, otp, now) ==
  [account EXCEPT !.resetPasswordOTP = Sha256(otp),
                  !.resetPasswordOTPExpire = DateAt(now + TwoMinutes)]

\* A check of the OTP that does not look at the expiry.
VerifyWithoutExpiry(account, enteredOTP, now) ==
  account.resetPasswordOTP = Sha256(enteredOTP)

\* verifyResetPasswordOTP
verifyResetPasswordOTP(account, enteredOTP, now) ==
  /\ account.resetPasswordOTP = Sha256(enteredOTP)
  /\ After(account.resetPasswordOTPExpire, now)

\* getResetPasswordToken: the document with the hashed token and its expiry.
getResetPasswordToken(account, resetToken, now) ==
  [account EXCEPT !.resetPasswordToken = Sha256(resetToken),
                  !.resetPasswordExpire = DateAt(now + TenMinutes)]

\* clearResetPasswordOTP
clearResetPasswordOTP(account) ==
  [account EXCEPT !.resetPasswordOTP = Unset, !.resetPasswordOTPExpire = NoDate]

\* What has happened to an account: the password it was registered with, the
\* number of logins answered 200, the OTP forgot-password generated and saved
\* last and when.
NewHistory(password) == [registered |-> password, logins |-> 0, otp |-> Unset, at |-> 0]

\* A request to a route of routes/auth.js.
AuthQuery(endpoint, e, password, otp, fault) ==
  [endpoint |-> endpoint, email |-> e, password |-> password, otp |-> otp, fault |-> fault]

\* The answer of a handler that uses the message field.
Message(status, message) == [status |-> status, error |-> "", message |-> message,
                             body |-> <<>>]

(***************************************************************************)
(* POST /login                                                             *)
(***************************************************************************)
\* res.status(200).json({success: true, token, user: {..., lastLogin: user.lastLogin}})
LoginOk(e, lastLogin) ==
  [status |-> 200, error |-> "", message |-> "",
   body |-> [token |-> <<"jwt", e>>, lastLogin |-> lastLogin]]

\* The handler from the password check on, on the document found: the update
\* of lastLogin (which can fail, and is then only logged) and the answer.
LoginMatched(collection, e, now, fault) ==
  IF fault = "update"
  THEN [res |-> LoginOk(e, collection[e].lastLogin), accounts |-> collection]
  ELSE [res |-> LoginOk(e, now), accounts |-> updateLastLogin(collection, e, now)]

LoginOutcome(collection, e, password, now, fault) ==
  IF e \notin DOMAIN collection
  THEN [res |-> Fail(401, "Invalid credentials"), accounts |-> collection]
  ELSE IF ~collection[e].isActive
  THEN [res |-> Fail(401, "Your account has been deactivated. Please contact admin."),
        accounts |-> collection]
  ELSE IF ~matchPassword(collection[e], password)
  THEN [res |-> Fail(401, "Invalid credentials"), accounts |-> collection]
  ELSE LoginMatched(collection, e, now, fault)

\* The number of logins the history counts.
MaxLogins == 2

CountLogin(h, e, response) ==
  IF response.status = 200 THEN [h EXCEPT ![e].logins = @ + 1] ELSE h

LoginEffect(e, out) ==
  /\ res' = out.res
  /\ accounts' = out.accounts
  /\ history' = CountLogin(history, e, out.res)

Login ==
  \E e \in Emails \cup {UnknownEmail}, password \in Passwords \cup {WrongPassword},
     fault \in {"none", "update"} :
    /\ e \in Emails => history[e].logins < MaxLogins
    /\ LoginEffect(e, LoginOutcome(accounts, e, password, clock, fault))
    /\ user' = e
    /\ query' = AuthQuery("login", e, password, Unset, fault)
    /\ UNCHANGED <<file, worksheet, excelData, fetched, storageUsed, docs, pending, files,
                   clock>>

\* Time passes: a minute.
MinuteMs == 60 * 1000
MaxClock == 3

Tick ==
  /\ clock < MaxClock * MinuteMs
  /\ clock' = clock + MinuteMs
  /\ UNCHANGED <<file, user, worksheet, excelData, query, res, fetched, storageUsed, docs,
                 pending, files, accounts, history>>

\* Two registered users, the second active or deactivated.
LoginInit ==
  /\ file = "absent"
  /\ user = "none"
  /\ worksheet = <<>>
  /\ excelData = NoDoc
  /\ query = AuthQuery("none", "none", Unset, Unset, "none")
  /\ res = NoRes
  /\ fetched = NotFetching
  /\ storageUsed = 0
  /\ docs = <<>>
  /\ pending = <<>>
  /\ files = <<>>
  /\ clock = 0
  /\ \E p1 \in Passwords, p2 \in Passwords, active \in BOOLEAN :
       /\ accounts = [e \in Emails |-> IF e = "ann" THEN CreateUser(p1, TRUE, 0)
                                       ELSE CreateUser(p2, active, 0)]
       /\ history = [e \in Emails |-> NewHistory(IF e = "ann" THEN p1 ELSE p2)]

LoginNext == Login \/ Tick

SpecLogin == LoginInit /\ [][LoginNext]_vars

(***************************************************************************)
(* Properties of login, checked under SpecLogin.                           *)
(***************************************************************************)
LoginAnswered == query.endpoint = "login" /\ query.email \in Emails

\* C22: a login of a registered active user with the registered password is
\* answered 200 and with any other password 401; a login changes nothing of
\* the stored users but the lastLogin of the user logging in, so the stored
\* password hash stays the hash of the registered password.
C22_LoginKeepsPassword ==
  /\ [](\A e \in Emails : matchPassword(accounts[e], history[e].registered))
  /\ [][(clock' = clock /\ LoginAnswered') =>
        /\ accounts' = [accounts EXCEPT ![user'].lastLogin = accounts'[user'].lastLogin]
        /\ (accounts[user'].isActive /\ query'.password = history[user'].registered)
             => res'.status = 200
        /\ (accounts[user'].isActive /\ query'.password # history[user'].registered)
             => res' = Fail(401, "Invalid credentials")]_vars

\* C22 witness: a user has logged in twice and the login just answered, some
\* minutes after the registration, was with the registered password.
C22_Witness ==
  /\ LoginAnswered
  /\ res.status = 200
  /\ history[user].logins = 2
  /\ query.password = history[user].registered
  /\ accounts[user].lastLogin = clock
  /\ clock > 0

(***************************************************************************)
(* POST /forgot-password, POST /verify-otp, POST /reset-password-with-otp  *)
(* on requests that pass the validators (an email, an OTP of six digits, a *)
(* password of six characters or more and its equal confirmation).         *)
(***************************************************************************)
\* The emails of the requests: a registered one and one without a user. The
\* other registered user is one for whom an OTP may have been generated.
Requested == {"ann", UnknownEmail}

\* crypto.randomBytes(20).toString('hex')
ResetTokens == {<<"a1b2">>}

\* What can go wrong in forgot-password outside the handler's own checks: the
\* save of the OTP is rejected, the mail cannot be sent.
MailFaults == {"none", "save", "mail"}

\* The catch block of forgot-password reads user, a const of the try block and
\* not in scope in the catch block: the read throws a ReferenceError inside the
\* async handler. The request is then left without an answer, or the error
\* reaches the application's error handler (server.js), as the framework does.
CatchOutcomes == {NoRes, Message(500, "Something went wrong!")}

\* The handler from the generated OTP on: save, send, answer.
SendOtp(collection, e, otp, now, fault, caught) ==
  IF fault = "save" THEN [res |-> caught, accounts |-> collection, saved |-> FALSE]
  ELSE IF fault = "mail"
  THEN [res |-> caught,
        accounts |-> [collection EXCEPT ![e] = generateResetPasswordOTP(@, otp, now)],
        saved |-> TRUE]
  ELSE [res |-> Message(200, "OTP sent to your email address"),
        accounts |-> [collection EXCEPT ![e] = generateResetPasswordOTP(@, otp, now)],
        saved |-> TRUE]

ForgotPasswordOutcome(collection, e, otp, now, fault, caught) ==
  IF e \notin DOMAIN collection
  THEN [res |-> Fail(404, "No user found with that email"), accounts |-> collection,
        saved |-> FALSE]
  ELSE SendOtp(collection, e, otp, now, fault, caught)

\* The OTP generated and saved last, and when.
RecordOtp(h, e, otp, now, out) ==
  IF out.saved THEN [h EXCEPT ![e].otp = otp, ![e].at = now] ELSE h

ForgotPasswordEffect(e, otp, out) ==
  /\ res' = out.res
  /\ accounts' = out.accounts
  /\ history' = RecordOtp(history, e, otp, clock, out)

ForgotPassword ==
  \E e \in Requested, otp \in Otps, fault \in MailFaults,
     caught \in CatchOutcomes :
    /\ ForgotPasswordEffect(e, otp,
                            ForgotPasswordOutcome(accounts, e, otp, clock, fault, caught))
    /\ user' = e
    /\ query' = AuthQuery("forgot-password", e, Unset, Unset, fault)
    /\ UNCHANGED <<file, worksheet, excelData, fetched, storageUsed, docs, pending, files,
                   clock>>

\* The handler of verify-otp with a check of the OTP that ignores the expiry.
VerifyOtpUnexpired(collection, e, otp, resetToken, now) ==
  IF e \notin DOMAIN collection
  THEN [res |-> Message(404, "No user found with that email"), accounts |-> collection]
  ELSE IF ~VerifyWithoutExpiry(collection[e], otp, now)
  THEN [res |-> Message(400, "Invalid or expired OTP"), accounts |-> collection]
  ELSE [res |-> [status |-> 200, error |-> "", message |-> "OTP verified successfully",
                 body |-> [resetToken |-> resetToken]],
        accounts |-> [collection EXCEPT ![e] = getResetPasswordToken(@, resetToken, now)]]

\* POST /verify-otp
VerifyOtpOutcome(collection, e, otp, resetToken, now) ==
  IF e \notin DOMAIN collection
  THEN [res |-> Message(404, "No user found with that email"), accounts |-> collection]
  ELSE IF ~verifyResetPasswordOTP(collection[e], otp, now)
  THEN [res |-> Message(400, "Invalid or expired OTP"), accounts |-> collection]
  ELSE [res |-> [status |-> 200, error |-> "", message |-> "OTP verified successfully",
                 body |-> [resetToken |-> resetToken]],
        accounts |-> [collection EXCEPT ![e] = getResetPasswordToken(@, resetToken, now)]]

AuthEffect(out) ==
  /\ res' = out.res
  /\ accounts' = out.accounts

VerifyOtp ==
  \E e \in Requested, otp \in Otps, resetToken \in ResetTokens :
    /\ AuthEffect(VerifyOtpOutcome(accounts, e, otp, resetToken, clock))
    /\ user' = e
    /\ query' = AuthQuery("verify-otp", e, Unset, otp, "none")
    /\ UNCHANGED <<file, worksheet, excelData, fetched, storageUsed, docs, pending, files,
                   clock, history>>

\* user.password = password; user.clearResetPasswordOTP(); await user.save()
SetPassword(account, password) ==
  PreSavePassword(clearResetPasswordOTP([account EXCEPT !.password = password]))

\* POST /reset-password-with-otp
ResetPasswordOutcome(collection, e, otp, password, now) ==
  IF e \notin DOMAIN collection
  THEN [res |-> Message(404, "No user found with that email"), accounts |-> collection]
  ELSE IF ~verifyResetPasswordOTP(collection[e], otp, now)
  THEN [res |-> Message(400, "Invalid or expired OTP"), accounts |-> collection]
  ELSE [res |-> [status |-> 200, error |-> "", message |-> "Password reset successful",
                 body |-> [token |-> <<"jwt", e>>]],
        accounts |-> [collection EXCEPT ![e] = SetPassword(@, password)]]

ResetPasswordWithOtp ==
  \E e \in Requested, otp \in Otps, password \in Passwords :
    /\ AuthEffect(ResetPasswordOutcome(accounts, e, otp, password, clock))
    /\ user' = e
    /\ query' = AuthQuery("reset-password-with-otp", e, password, otp, "none")
    /\ UNCHANGED <<file, worksheet, excelData, fetched, storageUsed, docs, pending, files,
                   clock, history>>

\* Two registered active users; for the second, forgot-password may have run
\* at time 0.
OtpInit ==
  /\ file = "absent"
  /\ user = "none"
  /\ worksheet = <<>>
  /\ excelData = NoDoc
  /\ query = AuthQuery("none", "none", Unset, Unset, "none")
  /\ res = NoRes
  /\ fetched = NotFetching
  /\ storageUsed = 0
  /\ docs = <<>>
  /\ pending = <<>>
  /\ files = <<>>
  /\ clock = 0
  /\ \E out \in {ForgotPasswordOutcome(
                    [e \in Emails |-> CreateUser(<<"password123">>, TRUE, 0)],
                    who, <<"222222">>, 0, "none", NoRes) : who \in {"bob", UnknownEmail}} :
       /\ accounts = out.accounts
       /\ history = RecordOtp([e \in Emails |-> NewHistory(<<"password123">>)],
                              "bob", <<"222222">>, 0, out)

OtpNext == ForgotPassword \/ VerifyOtp \/ ResetPasswordWithOtp \/ Tick

SpecOtp == OtpInit /\ [][OtpNext]_vars

(***************************************************************************)
(* Properties of the reset OTP, checked under SpecOtp.                     *)
(***************************************************************************)
\* A step of verify-otp or reset-password-with-otp for a registered email.
OtpChecked ==
  /\ clock' = clock
  /\ query'.endpoint \in {"verify-otp", "reset-password-with-otp"}
  /\ query'.email \in Emails

\* The OTP of the request is the one forgot-password generated last for the
\* email, less than two minutes ago.
LatestAndFresh(e, otp) ==
  /\ history[e].otp = otp
  /\ clock - history[e].at < TwoMinutes

\* C23: verify-otp and reset-password-with-otp answer 200 only for the OTP that
\* forgot-password generated last for the email and less than two minutes
\* after it was generated; every other request is answered 400 'Invalid or
\* expired OTP' and leaves the stored users, password and reset token included,
\* as they were.
C23_OtpLatestAndFresh ==
  [][OtpChecked =>
       IF res'.status = 200
       THEN LatestAndFresh(user', query'.otp)
       ELSE /\ res' = Message(400, "Invalid or expired OTP")
            /\ accounts' = accounts]_vars

\* C23 witness: an OTP was generated at time 0; a request with it two minutes
\* later has been answered 400, the password being the registered one.
C23_Witness ==
  /\ query.endpoint = "reset-password-with-otp"
  /\ query.email \in Emails
  /\ history[user].otp = query.otp
  /\ history[user].at = 0
  /\ clock = TwoMinutes
  /\ res = Message(400, "Invalid or expired OTP")
  /\ matchPassword(accounts[user], history[user].registered)

\* C30: when forgot-password fails after the OTP has been saved (the mail
\* cannot be sent), the request is answered 500 'Email could not be sent' and
\* the user's stored OTP and OTP expiry are cleared.
C30_FailedMailClearsOtp ==
  (query.endpoint = "forgot-password" /\ query.fault = "mail" /\ query.email \in Emails) =>
    /\ res = Fail(500, "Email could not be sent")
    /\ accounts[user].resetPasswordOTP = Unset
    /\ accounts[user].resetPasswordOTPExpire = NoDate

(***************************************************************************)
(* Property of the pagination envelope, checked under SpecPage.            *)
(***************************************************************************)
Envelope == res.body.pagination

\* n is ceil(total / limit): the least number of pages of limit rows that hold
\* total rows.
IsCeiling(n, total, limit) ==
  /\ n >= 0
  /\ n * limit >= total
  /\ n > 0 => (n - 1) * limit < total

\* Rows of the sequence lie after those of the page.
RowsAfterPage == \E i \in DOMAIN AnsweredRows : i > Envelope.page * Envelope.limit

\* The scenario of 25 items: page 3 under limit 10.
Items25 == [i \in 1..25 |-> i - 1]

ScenarioPage3 ==
  /\ PaginatedData(Items25, 3, 10) = <<20, 21, 22, 23, 24>>
  /\ TablePagination(Items25, 3, 10).totalPages = 3
  /\ ~TablePagination(Items25, 3, 10).hasNextPage
  /\ TablePagination(Items25, 3, 10).hasPrevPage
  /\ DataPagination([rowCount |-> 25, data |-> Items25], 3, 10).totalPages = 3
  /\ ~DataPagination([rowCount |-> 25, data |-> Items25], 3, 10).hasNextPage
  /\ DataPagination([rowCount |-> 25, data |-> Items25], 3, 10).hasPrevPage

\* C24: for a page of at least 1 and a positive limit, the envelope of data,
\* analyze and table-data reports totalPages = ceil(totalItems / limit) (0 for
\* no items), hasPrevPage exactly when page > 1 and hasNextPage exactly when rows
\* lie after the page, which is exactly when page < totalPages; a page beyond
\* totalPages has no rows and no next page. 25 items, page 3, limit 10 give the
\* items 20..24, totalPages 3, no next page, a previous page.
C24_PaginationEnvelope ==
  /\ ScenarioPage3
  /\ (PageAnswered /\ Envelope.page >= 1 /\ Envelope.limit >= 1) =>
       /\ Envelope.totalRows = Len(AnsweredRows)
       /\ IsCeiling(Envelope.totalPages, Len(AnsweredRows), Envelope.limit)
       /\ Envelope.hasPrevPage <=> Envelope.page > 1
       /\ Envelope.hasNextPage <=> RowsAfterPage
       /\ Envelope.hasNextPage <=> Envelope.page < Envelope.totalPages
       /\ Envelope.page > Envelope.totalPages =>
            res.body.data = <<>> /\ ~Envelope.hasNextPage

\* C24 witness: table-data on a sheet of three rows, page 2 under limit 2: the
\* last row, two pages, no next page, a previous page.
C24_Witness ==
  /\ PageAnswered
  /\ query.endpoint = "table-data"
  /\ Len(worksheet) = 3
  /\ Envelope.page = 2
  /\ Envelope.limit = 2
  /\ res.body.data = <<worksheet[3]>>
  /\ Envelope.totalPages = 2
  /\ ~Envelope.hasNextPage
  /\ Envelope.hasPrevPage

(***************************************************************************)
(* Bar, line and area requests on the stored sheets of ChartInit, with the *)
(* rows grouped by Team, grouped by Region (whose values 9 and 10 are      *)
(* integers) or not grouped.                                               *)
(***************************************************************************)
SeriesTypes == { JUndef, Text(<<"l", "i", "n", "e">>), Text(<<"a", "r", "e", "a">>) }
SeriesGroupBys == { JUndef, Text(<<"t", "e", "a", "m">>), Text(<<"r", "e", "g", "i", "o", "n">>) }

SeriesQueries ==
  { [endpoint |-> "chart-data", fault |-> "none", sheet |-> JUndef, chartType |-> t,
     xAxis |-> Text(<<"r", "e", "g", "i", "o", "n">>), yAxis |-> y, groupBy |-> g,
     limit |-> l, page |-> JUndef] :
      t \in SeriesTypes, y \in YAxes, g \in SeriesGroupBys, l \in ChartLimits }

SeriesData ==
  /\ query = NoQuery
  /\ \E q \in SeriesQueries :
       /\ query' = q
       /\ res' = ChartDataResponse(file, user, excelData, q)
  /\ UNCHANGED <<file, user, worksheet, excelData, fetched, storageUsed, docs, pending,
                 files, accounts, clock, history>>

SeriesNext == SeriesData

SpecSeries == ChartInit /\ [][SeriesNext]_vars

(***************************************************************************)
(* Properties of the bar, line and area series, checked under SpecSeries.  *)
(***************************************************************************)
IsSimpleRequest == ChartSucceeded /\ IsBarRequest /\ ~Present(query.groupBy)

\* The first rows that have an xAxis value.
RowsWithX == SelectSeq([i \in DOMAIN FirstRows |-> XOf(FirstRows[i])], NonNull)

SeriesNumbers(data) == [i \in DOMAIN data |-> data[i].n]

GroupsInOrder == Distinct([i \in DOMAIN FirstRows |-> GOf(FirstRows[i])])

\* C26: for bar, line and area with groupBy the datasets come in the order in
\* which their groupBy values are first met in the rows, integer values
\* included; the dataset at position i (from 0) has that value as label and
\* the hue i * 60.
C26_DatasetsInDiscoveryOrder ==
  IsGroupedRequest =>
    /\ Len(Datasets) = Len(GroupsInOrder)
    /\ \A d \in DOMAIN Datasets :
         /\ d <= Len(GroupsInOrder) => Datasets[d].label.s = JsString(GroupsInOrder[d])
         /\ Datasets[d].hue = (d - 1) * 60

\* The position of an xAxis value in labels.
LabelIndex(x) == CHOOSE i \in DOMAIN Labels : Labels[i] = x

\* The value the ungrouped path reports for an xAxis value of the same rows.
UngroupedValue(x) ==
  ObjGet(Aggregated(FirstRows, Len(FirstRows), query.xAxis, query.yAxis), JsString(x)).n

\* C29: for the same rows, xAxis and yAxis, the values of the groupBy datasets
\* at a non-null xAxis value add up to the value the ungrouped path reports for
\* it, for counts and for sums, rows with a null or non-numeric yAxis included.
C29_GroupedSumsToUngrouped ==
  IsGroupedRequest =>
    \A x \in XValues :
      ~IsNullish(x) =>
        SumSeq([d \in DOMAIN Datasets |-> Datasets[d].data[LabelIndex(x)].n])
          = UngroupedValue(x)

(***************************************************************************)
(* POST /upload on one file, and GET /:id/preview on it. The handler reads *)
(* the workbook's sheet as XLSX.utils.sheet_to_json(worksheet, {header: 1})*)
(* gives it: an array per row of the sheet, the header row first, and no   *)
(* array at all for a sheet without cells.                                 *)
(***************************************************************************)
\* maxPreviewRows: 100 data rows + 1 header row.
MaxPreviewRows == 101

\* One entry of sheets: name, columns, rowCount, previewData.
UploadSheet(sheetName, jsonData) ==
  [name |-> sheetName,
   columns |-> IF jsonData = <<>> THEN <<>> ELSE jsonData[1],
   rowCount |-> Len(jsonData) - 1,
   previewData |-> ArraySlice(jsonData, 0, Min(MaxPreviewRows, Len(jsonData)))]

\* The handler on a request that has a file of one sheet: the answer and the
\* size added to the uploader's storageUsed.
UploadOutcome(jsonData, size, fault) ==
  IF fault = "read"
  THEN [res |-> ServerError(ThrownBy("XLSX.readFile")), file |-> "absent", added |-> 0]
  ELSE IF fault = "save"
  THEN [res |-> ServerError(ThrownBy("excelFile.save")), file |-> "absent", added |-> 0]
  ELSE [res |-> [status |-> 201, error |-> "", message |-> "",
                 body |-> [fileSize |-> size,
                           sheets |-> <<UploadSheet(FirstSheet, jsonData)>>]],
        file |-> "present", added |-> size]

UploadEffect(out) ==
  /\ res' = out.res
  /\ file' = out.file
  /\ storageUsed' = storageUsed + out.added

\* An upload makes a new file record, which the requests that follow name.
UploadFile(jsonData) ==
  /\ file = "absent"
  /\ \E fault \in {"none", "read", "save"} :
       /\ UploadEffect(UploadOutcome(jsonData, FileSize, fault))
       /\ query' = [Query("upload") EXCEPT !.fault = fault]
  /\ user' = "owner"
  /\ UNCHANGED <<worksheet, excelData, fetched, docs, pending, files, accounts, clock,
                 history>>

\* GET /:id/preview on the rows sheet_to_json gives with header: 1.
PreviewRows(f, u, jsonData, q) ==
  IF SheetAccess(f, u, q) # NoRes THEN SheetAccess(f, u, q)
  ELSE PreviewOk(jsonData, LimitOf(q, DefaultPreviewLimit))

(***************************************************************************)
(* Uploads and previews of sheets given row by row: no row at all, a       *)
(* header row alone, a header row and data rows that hold their index, a   *)
(* few or more than an upload previews.                                    *)
(***************************************************************************)
MaxGridRows == 4
MaxGridLimit == 3

GridHeader == <<JStr(HdrId)>>

Grid(n) == <<GridHeader>> \o [r \in 1..n |-> <<JNum(r)>>]

GridSheets(maxRows) == {<<>>} \cup {Grid(n) : n \in 0..maxRows} \cup {Grid(MaxPreviewRows)}

PreviewLimits == {JUndef, Text(<<"x">>)} \cup {Numeral(l) : l \in 0..MaxGridLimit}

UploadGrid == UploadFile(worksheet)

PreviewGrid ==
  \E u \in Requesters, l \in PreviewLimits :
    /\ res' = PreviewRows(file, u, worksheet, [Query("preview") EXCEPT !.limit = l])
    /\ query' = [Query("preview") EXCEPT !.limit = l]
    /\ user' = u
    /\ UNCHANGED <<file, worksheet, excelData, fetched, storageUsed, docs, pending, files,
                   accounts, clock, history>>

GridInit ==
  /\ file = "absent"
  /\ user = "owner"
  /\ worksheet \in GridSheets(MaxGridRows)
  /\ excelData = NoDoc
  /\ query = NoQuery
  /\ res = NoRes
  /\ fetched = NotFetching
  /\ storageUsed = 0
  /\ docs = <<>> /\ pending = <<>>
  /\ files = <<>> /\ accounts = <<>> /\ clock = 0 /\ history = <<>>

GridNext == UploadGrid \/ PreviewGrid

SpecGrid == GridInit /\ [][GridNext]_vars

(***************************************************************************)
(* Property of the row counts and previews, checked under SpecGrid.        *)
(***************************************************************************)
\* The data rows of the sheet: the rows after the header row.
DataRows == IF worksheet = <<>> THEN <<>> ELSE Tail(worksheet)

\* The header row (when the sheet has one) followed by the first n data rows.
HeaderAndRows(n) == SubSeq(worksheet, 1, Min(Len(worksheet), n + 1))

\* N of a preview request: the limit of the query, 10 when it gives none.
PreviewN == Effective(query.limit, 10)

UploadAnswered == query.endpoint = "upload" /\ res.status = 201
PreviewAnswered == query.endpoint = "preview" /\ res.status = 200

\* C27: the rowCount (and totalRows) that upload and preview report for a
\* sheet is the number of data rows after the header row, never negative and
\* 0 for a sheet with no rows; previewData is the header row followed by the
\* first N data rows at most, N being 100 on upload and the limit (default 10)
\* on preview, and actualDataRows is min(N, rowCount).
C27_RowCountAndPreview ==
  /\ UploadAnswered =>
       /\ res.body.sheets[1].rowCount = Len(DataRows)
       /\ res.body.sheets[1].rowCount >= 0
       /\ res.body.sheets[1].previewData = HeaderAndRows(100)
  /\ PreviewAnswered =>
       /\ res.body.rowCount = Len(DataRows)
       /\ res.body.totalRows = Len(DataRows)
       /\ res.body.rowCount >= 0
       /\ res.body.previewData = HeaderAndRows(PreviewN)
       /\ res.body.actualDataRows = Min(PreviewN, Len(DataRows))

(***************************************************************************)
(* The life of one file: its owner uploads it and then sends parse, data,  *)
(* chart and every other request for its id, one after another, and        *)
(* deletes it. history records what happened to the file: "uploaded" once  *)
(* the upload was answered 201, the name of a sheet once a parse of it was *)
(* answered 200, "deleted" once the delete was answered 200.               *)
(***************************************************************************)
Uploaded == \E i \in DOMAIN history : history[i] = <<"uploaded">>

Deleted == \E i \in DOMAIN history : history[i] = <<"deleted">>

Parsed(sheetName) == \E i \in DOMAIN history : history[i] = <<"parsed", sheetName>>

Recorded(events, event) ==
  IF \E i \in DOMAIN events : events[i] = event THEN events ELSE Append(events, event)

\* POST /upload of the workbook, before which there is no id to ask for.
LifeUpload ==
  /\ ~Uploaded
  /\ \E fault \in {"none", "read", "save"} :
       /\ UploadEffect(UploadOutcome(RowsAsArrays(worksheet), FileSize, fault))
       /\ query' = [Query("upload") EXCEPT !.fault = fault]
       /\ history' = IF fault = "none" THEN Recorded(history, <<"uploaded">>) ELSE history
  /\ user' = "owner"
  /\ UNCHANGED <<worksheet, excelData, fetched, docs, pending, files, accounts, clock>>

\* POST /:id/parse by the owner.
LifeParse ==
  /\ Uploaded
  /\ \E bodySheet \in BodySheetNames, fault \in Faults :
       /\ ParseEffect(ParseResult(file, "owner", worksheet, excelData, bodySheet, fault))
       /\ query' = [Query("parse") EXCEPT !.sheet = bodySheet, !.fault = fault]
       /\ history' =
            IF ParseResult(file, "owner", worksheet, excelData, bodySheet, fault).res.status = 200
            THEN Recorded(history, <<"parsed", JsString(JsOr(bodySheet, JStr(SheetNames[1])))>>)
            ELSE history
  /\ user' = "owner"
  /\ UNCHANGED <<file, worksheet, fetched, storageUsed, docs, pending, files, accounts, clock>>

\* DELETE /:id by the owner.
LifeDelete ==
  /\ Uploaded
  /\ DeleteEffect(DeleteOutcome(file, "owner", excelData, storageUsed))
  /\ history' =
       IF DeleteOutcome(file, "owner", excelData, storageUsed).res.status = 200
       THEN Recorded(history, <<"deleted">>)
       ELSE history
  /\ user' = "owner"
  /\ query' = Query("delete")
  /\ UNCHANGED <<worksheet, fetched, docs, pending, files, accounts, clock>>

\* GET /:id/data, /:id/chart-metadata and /:id/chart-data by the owner.
LifeData == Uploaded /\ DataRequest /\ user' = "owner"

LifeChartMetadata == Uploaded /\ ChartMetadataRequest /\ user' = "owner"

LifeChartData == Uploaded /\ ChartDataRequest /\ user' = "owner"

\* The endpoints that read the workbook, and GET /:id, by the owner.
LifeRead ==
  /\ Uploaded
  /\ GetFile \/ AnalyzeRequest \/ TableDataRequest \/ DownloadDataRequest \/ PreviewRequest
  /\ user' = "owner"

LifeInit ==
  /\ file = "absent"
  /\ user = "owner"
  /\ worksheet \in ApiSheets(MaxApiRows)
  /\ excelData = NoDoc
  /\ query = NoQuery
  /\ res = NoRes
  /\ fetched = NotFetching
  /\ storageUsed = 0
  /\ docs = <<>> /\ pending = <<>>
  /\ files = <<>> /\ accounts = <<>> /\ clock = 0 /\ history = <<>>

LifeNext ==
  \/ LifeUpload
  \/ LifeParse
  \/ LifeDelete
  \/ LifeData
  \/ LifeChartMetadata
  \/ LifeChartData
  \/ LifeRead

SpecLife == LifeInit /\ [][LifeNext]_vars

ParseFirst == Fail(404, "Processed data not found for this sheet. Please parse the file first.")

\* The document a parse of the sheet stores.
StoredFor(sheetName) == NewExcelData(processExcelFile(worksheet), "owner", sheetName)

\* The step is a request for the parsed data of a sheet of the file.
AsksParsedData ==
  /\ query'.endpoint \in {"data", "chart-metadata", "chart-data"}
  /\ ~Deleted

\* The answer is made of the document stored for the sheet: the rows and columns
\* of it, its fields and summary, and for a chart the answer the chart handler
\* gives on that document, which is not the 404.
FromStored(sheetName) ==
  /\ excelData = StoredFor(sheetName)
  /\ res' # ParseFirst
  /\ query'.endpoint = "data" =>
       /\ res'.status = 200
       /\ res'.body.data = StoredFor(sheetName).data
       /\ res'.body.columns = StoredFor(sheetName).columns
  /\ query'.endpoint = "chart-metadata" =>
       /\ res'.status = 200
       /\ res'.body.sheetName = sheetName
       /\ res'.body.summary = StoredFor(sheetName).summary
  /\ query'.endpoint = "chart-data" =>
       res' = ChartDataResponse("present", "owner", StoredFor(sheetName), query')

====
